---- MODULE Spec2Model ----
(***************************************************************************)
(* A model of basic-memory-store: the in-process TTL cache and namespace   *)
(* registry (utils/cache.ts, routes/memory.ts), the background sweeper,    *)
(* the write-behind batcher (utils/dbBatcher.ts), the durable collection   *)
(* (models/MemoryCache.ts) and the access-control middleware               *)
(* (middlewares/checkKey.ts).                                              *)
(*                                                                         *)
(* Node runs one macrotask at a time, so every action below is one         *)
(* macrotask: a handler up to its first await on an I/O result, a timer    *)
(* callback, or the stretch of the sweeper between two setTimeout yields.  *)
(***************************************************************************)
EXTENDS Integers, Sequences, FiniteSets, TLC

\* ------------------------------------------------------------------ bounds
\* The clock advances by Step milliseconds up to MaxTime.
Step == 500
MaxTime == 1500
\* Number of entries one behaviour writes to the memory tier.
MaxWrites == 2
\* DbBatcher.BATCH_SIZE is 500 (dbBatcher.ts:6); the model scales the
\* threshold down so that a few requests reach it.
BATCH_SIZE == 3
\* Number of operations one behaviour hands to the batcher.
MaxOps == 4
\* prune() is called with its default chunkSize of 1000 (cache.ts:101); the
\* model walks stores of a few keys, so the chunk is scaled down to make the
\* walk yield inside a store.
ChunkSize == 1

\* ------------------------------------------------------------------ values
None == <<>>
Some(v) == <<v>>

\* Namespaces ("indexes") and keys used by requests.
Indexes == {"a", "b"}
Keys == {"k1", "k2"}
\* ttl values of request bodies, in seconds (Body.ttl is any integer).
TTLs == {-1, 0, 1}
\* Payloads: JSON null, or an object whose field "score" is missing or a number.
NullPayload == [isObj |-> FALSE, score |-> None]
Obj(s) == [isObj |-> TRUE, score |-> s]
\* Namespaces and payloads of the requests of the memory-tier specification.
MemIndexes == {"a"}
MemPayloads == {Obj(None), Obj(Some(10))}

Times == {t \in 0..MaxTime : t % Step = 0}

\* An expiry instant: Infinity, or a finite millisecond timestamp.
Infinity == [inf |-> TRUE, at |-> 0]
Finite(t) == [inf |-> FALSE, at |-> t]
\* expiry < Date.now()
ExpiryLt(e, t) == ~e.inf /\ e.at < t

\* ------------------------------------------------------- Map (insertion order)
\* A JS Map is a sequence of [key, value] entries in insertion order:
\* set() of a present key keeps its place, set() of a new key appends,
\* delete() removes.
MapIndex(m, k) ==
    IF \E i \in 1..Len(m) : m[i].key = k
    THEN CHOOSE i \in 1..Len(m) : m[i].key = k
    ELSE 0
MapHas(m, k) == MapIndex(m, k) # 0
MapGet(m, k) == m[MapIndex(m, k)].value
MapSet(m, k, v) ==
    IF MapHas(m, k)
    THEN [m EXCEPT ![MapIndex(m, k)] = [key |-> k, value |-> v]]
    ELSE Append(m, [key |-> k, value |-> v])
MapDelete(m, k) ==
    LET i == MapIndex(m, k) IN
    IF i = 0 THEN m ELSE SubSeq(m, 1, i - 1) \o SubSeq(m, i + 1, Len(m))
MapKeys(m) == [i \in 1..Len(m) |-> m[i].key]

\* ------------------------------------------------------------------ TTLCache
\* A set that takes every ttl, zero and negative too, as a finite lifetime.
TTLSetNoInfinity(c, k, v, ttlSeconds, t) ==
    MapSet(c, k, [value |-> v, expiry |-> Finite(t + ttlSeconds * 1000)])
\* TTLCache.set: ttlSeconds <= 0 stores Infinity, else now + ttlSeconds * 1000.
TTLSet(c, k, v, ttlSeconds, t) ==
    IF ttlSeconds <= 0
    THEN MapSet(c, k, [value |-> v, expiry |-> Infinity])
    ELSE LET ttlMilliseconds == ttlSeconds * 1000
             expiry == t + ttlMilliseconds
         IN MapSet(c, k, [value |-> v, expiry |-> Finite(expiry)])

\* A get that answers by the expiry test but returns expired entries too.
TTLGetKeepsExpired(c, k, t) ==
    IF ~MapHas(c, k) THEN [cache |-> c, value |-> None]
    ELSE IF ExpiryLt(MapGet(c, k).expiry, t)
         THEN [cache |-> c, value |-> None]
         ELSE [cache |-> c, value |-> Some(MapGet(c, k).value)]
\* A get that takes an entry for expired from the instant of its expiry on.
TTLGetExpiresAtNow(c, k, t) ==
    IF ~MapHas(c, k) THEN [cache |-> c, value |-> None]
    ELSE IF ~MapGet(c, k).expiry.inf /\ MapGet(c, k).expiry.at <= t
         THEN [cache |-> MapDelete(c, k), value |-> None]
         ELSE [cache |-> c, value |-> Some(MapGet(c, k).value)]
\* TTLCache.get: the value, or None; an expired entry is deleted on the way.
\* Returns the cache after the call and the value.
TTLGet(c, k, t) ==
    IF ~MapHas(c, k) THEN [cache |-> c, value |-> None]
    ELSE IF ExpiryLt(MapGet(c, k).expiry, t)
         THEN [cache |-> MapDelete(c, k), value |-> None]
         ELSE [cache |-> c, value |-> Some(MapGet(c, k).value)]

\* TTLCache.has: get(key) !== undefined.
TTLHas(c, k, t) ==
    LET g == TTLGet(c, k, t) IN [cache |-> g.cache, result |-> g.value # None]

\* TTLCache.clear
TTLClear(c) == <<>>

\* TTLCache.size from iterator position pos with count entries counted so
\* far: has() on every key, which deletes the expired entries on the way.
\* Returns the cache after the call and the number of entries has() found.
RECURSIVE TTLSize(_, _, _, _)
TTLSize(c, pos, count, t) ==
    IF pos >= Len(c) THEN [cache |-> c, result |-> count]
    ELSE LET k == c[pos + 1].key
             h == TTLHas(c, k, t)
             pos2 == IF MapHas(h.cache, k) THEN pos + 1 ELSE pos
             count2 == IF h.result THEN count + 1 ELSE count
         IN TTLSize(h.cache, pos2, count2, t)

\* TTLCache.delete
TTLDelete(c, k) == [cache |-> MapDelete(c, k), result |-> MapHas(c, k)]

\* A walk by index into a copy of the key list: after a removal it moves on
\* by one all the same, past the entry that took the removed one's place.
RECURSIVE PruneRunSkips(_, _, _, _, _)
PruneRunSkips(c, pos, checked, chunkSize, t) ==
    IF pos >= Len(c) THEN [cache |-> c, pos |-> pos, checked |-> checked, done |-> TRUE]
    ELSE LET k == c[pos + 1].key
             h == TTLHas(c, k, t)
             checked2 == checked + 1
         IN IF checked2 % chunkSize = 0
            THEN [cache |-> h.cache, pos |-> pos + 1, checked |-> checked2, done |-> FALSE]
            ELSE PruneRunSkips(h.cache, pos + 1, checked2, chunkSize, t)
\* A walk that takes a new iterator after every yield: it starts over from
\* the first key.
RECURSIVE PruneRunRestarts(_, _, _, _, _)
PruneRunRestarts(c, pos, checked, chunkSize, t) ==
    LET from == IF checked > 0 /\ checked % chunkSize = 0 THEN 0 ELSE pos IN
    IF from >= Len(c) THEN [cache |-> c, pos |-> from, checked |-> checked, done |-> TRUE]
    ELSE LET k == c[from + 1].key
             h == TTLHas(c, k, t)
             pos2 == IF MapHas(h.cache, k) THEN from + 1 ELSE from
             checked2 == checked + 1
         IN IF checked2 % chunkSize = 0
            THEN [cache |-> h.cache, pos |-> pos2, checked |-> checked2, done |-> FALSE]
            ELSE PruneRunRestarts(h.cache, pos2, checked2, chunkSize, t)
\* TTLCache.prune from iterator position pos (entries 1..pos are behind the
\* iterator) with `checked` keys visited so far, run until the walk yields
\* (checked % chunkSize = 0) or ends. A deleted entry leaves the iterator
\* where it is: the next entry moves into its place.
RECURSIVE PruneRun(_, _, _, _, _)
PruneRun(c, pos, checked, chunkSize, t) ==
    IF pos >= Len(c) THEN [cache |-> c, pos |-> pos, checked |-> checked, done |-> TRUE]
    ELSE LET k == c[pos + 1].key
             h == TTLHas(c, k, t)
             pos2 == IF MapHas(h.cache, k) THEN pos + 1 ELSE pos
             checked2 == checked + 1
         IN IF checked2 % chunkSize = 0
            THEN [cache |-> h.cache, pos |-> pos2, checked |-> checked2, done |-> FALSE]
            ELSE PruneRun(h.cache, pos2, checked2, chunkSize, t)

\* ------------------------------------------------------- namespace registry
\* `cache` of routes/memory.ts: a TTLCache of namespace name -> TTLCache of
\* key -> {payload, cursor}. Stores are objects held by reference: SetGame
\* writes a mutated store back into its registry entry.
SetGame(reg, idx, game) ==
    LET i == MapIndex(reg, idx) IN
    IF i = 0 THEN reg ELSE [reg EXCEPT ![i].value.value = game]

\* A lookup that registers a new empty store at every call.
get_index_cacheFresh(reg, idx, t) ==
    [cache |-> TTLSet(TTLGet(reg, idx, t).cache, idx, <<>>, 0, t), game |-> <<>>]
\* A lookup that hands out a new store without registering it.
get_index_cacheDetached(reg, idx, t) ==
    LET g == TTLGet(reg, idx, t) IN
    IF g.value = None
    THEN [cache |-> g.cache, game |-> <<>>]
    ELSE [cache |-> g.cache, game |-> g.value[1]]
\* get_index_cache: the registered store, or a new empty one registered
\* with ttl 0 (never expires).
get_index_cache(reg, idx, t) ==
    LET g == TTLGet(reg, idx, t) IN
    IF g.value = None
    THEN [cache |-> TTLSet(g.cache, idx, <<>>, 0, t), game |-> <<>>]
    ELSE [cache |-> g.cache, game |-> g.value[1]]

\* A walk that reads the entries without get(): expired ones are kept.
RECURSIVE IterGetRaw(_, _, _)
IterGetRaw(c, pos, t) ==
    IF pos >= Len(c) THEN [cache |-> c, live |-> <<>>]
    ELSE LET rest == IterGetRaw(c, pos + 1, t)
         IN [cache |-> rest.cache,
             live |-> <<[key |-> c[pos + 1].key, value |-> c[pos + 1].value.value]>>
                      \o rest.live]
\* `for (const key of game.map().keys()) { const entry = game.get(key); ... }`
\* from iterator position pos: the store after the walk and the entries
\* get() returned, in iteration order.
RECURSIVE IterGet(_, _, _)
IterGet(c, pos, t) ==
    IF pos >= Len(c) THEN [cache |-> c, live |-> <<>>]
    ELSE LET k == c[pos + 1].key
             g == TTLGet(c, k, t)
             pos2 == IF MapHas(g.cache, k) THEN pos + 1 ELSE pos
             rest == IterGet(g.cache, pos2, t)
         IN IF g.value = None
            THEN rest
            ELSE [cache |-> rest.cache,
                  live |-> <<[key |-> k, value |-> g.value[1]]>> \o rest.live]

\* ------------------------------------------------------ memory-tier handlers
\* Each returns the registry after the handler and the response it sends.
Take(s, n) == SubSeq(s, 1, IF n < Len(s) THEN n ELSE Len(s))

\* set, persist = false (memory.ts set: cursor = Date.now()).
MemSet(reg, index, key, data, ttl, t) ==
    LET g == get_index_cache(reg, index, t)
        game == TTLSet(g.game, key, [payload |-> data, cursor |-> t], ttl, t)
    IN [cache |-> SetGame(g.cache, index, game), res |-> [status |-> 200]]

\* globalBatchSet / bufferedBatchSet, persist = false: items is a sequence
\* of [index, key, data]; one cursor for the whole request, one lookup of
\* the store per item.
RECURSIVE MemBatchSet(_, _, _, _)
MemBatchSet(reg, items, ttl, t) ==
    IF items = <<>> THEN [cache |-> reg, res |-> [status |-> 200]]
    ELSE LET it == Head(items)
             g == get_index_cache(reg, it.index, t)
             game == TTLSet(g.game, it.key, [payload |-> it.data, cursor |-> t], ttl, t)
         IN MemBatchSet(SetGame(g.cache, it.index, game), Tail(items), ttl, t)

\* batchSet, persist = false: the store of the namespace is looked up (and
\* registered) once, before the loop over the items [key, data].
RECURSIVE SetItems(_, _, _, _)
SetItems(game, items, ttl, t) ==
    IF items = <<>> THEN game
    ELSE SetItems(TTLSet(game, Head(items).key,
                         [payload |-> Head(items).data, cursor |-> t], ttl, t),
                  Tail(items), ttl, t)
MemBatchSetIndex(reg, index, items, ttl, t) ==
    LET g == get_index_cache(reg, index, t)
    IN [cache |-> SetGame(g.cache, index, SetItems(g.game, items, ttl, t)),
        res |-> [status |-> 200]]

\* del, useDb = false.
MemDel(reg, index, key, t) ==
    LET g == get_index_cache(reg, index, t)
        d == TTLDelete(g.game, key)
    IN [cache |-> SetGame(g.cache, index, d.cache), res |-> [status |-> 200]]

\* get, useDb = false: data is the payload, or null when there is no entry.
MemGet(reg, index, key, t) ==
    LET g == get_index_cache(reg, index, t)
        e == TTLGet(g.game, key, t)
    IN [cache |-> SetGame(g.cache, index, e.cache),
        res |-> [status |-> 200,
                 data |-> IF e.value = None THEN NullPayload ELSE e.value[1].payload]]

\* batchGet, useDb = false: keys is a sequence.
RECURSIVE BatchGetLoop(_, _, _)
BatchGetLoop(game, keys, t) ==
    IF keys = <<>> THEN [cache |-> game, results |-> <<>>]
    ELSE LET e == TTLGet(game, Head(keys), t)
             rest == BatchGetLoop(e.cache, Tail(keys), t)
         IN [cache |-> rest.cache,
             results |-> (IF e.value = None THEN <<>>
                          ELSE <<[key |-> Head(keys), data |-> e.value[1].payload]>>)
                         \o rest.results]
MemBatchGet(reg, index, keys, t) ==
    LET g == get_index_cache(reg, index, t)
        r == BatchGetLoop(g.game, keys, t)
    IN [cache |-> SetGame(g.cache, index, r.cache),
        res |-> [status |-> 200, data |-> r.results]]

\* A comparator (a, b) => a.cursor - b.cursor: oldest first.
RECURSIVE InsertCursorAsc(_, _)
InsertCursorAsc(s, x) ==
    IF s = <<>> THEN <<x>>
    ELSE IF Head(s).cursor - x.cursor > 0
         THEN <<x>> \o s
         ELSE <<Head(s)>> \o InsertCursorAsc(Tail(s), x)
\* Array.prototype.sort is stable: an element goes behind every element the
\* comparator does not put after it.
RECURSIVE InsertCursorDesc(_, _)
InsertCursorDesc(s, x) ==
    IF s = <<>> THEN <<x>>
    ELSE IF x.cursor - Head(s).cursor > 0
         THEN <<x>> \o s
         ELSE <<Head(s)>> \o InsertCursorDesc(Tail(s), x)
RECURSIVE SortCursorDesc(_)
SortCursorDesc(s) ==
    IF s = <<>> THEN <<>>
    ELSE InsertCursorDesc(SortCursorDesc(SubSeq(s, 1, Len(s) - 1)), s[Len(s)])

\* getAll, useDb = false. cursor is None or Some(number); `!cursor` also
\* treats 0 as no cursor.
GetAllEntries(r) == [i \in 1..Len(r.live) |->
    [key |-> r.live[i].key, data |-> r.live[i].value.payload,
     cursor |-> r.live[i].value.cursor]]
GetAllPage(live, cursor, pageSize) ==
    LET noCursor == cursor = None \/ cursor[1] = 0
        allEntries == SelectSeq(live, LAMBDA e : noCursor \/ e.cursor < cursor[1])
        sorted == SortCursorDesc(allEntries)
        page == Take(sorted, pageSize)
    IN [status |-> 200,
        data |-> [i \in 1..Len(page) |-> [key |-> page[i].key, data |-> page[i].data]],
        pageSize |-> pageSize,
        totalItems |-> Len(live),
        nextCursor |-> IF page = <<>> THEN None ELSE Some(page[Len(page)].cursor),
        hasMore |-> Len(page) = pageSize /\ Len(sorted) > pageSize,
        source |-> "memory"]
MemGetAll(reg, index, cursor, pageSize, t) ==
    LET g == get_index_cache(reg, index, t)
        r == IterGet(g.game, 0, t)
    IN [cache |-> SetGame(g.cache, index, r.cache),
        res |-> GetAllPage(GetAllEntries(r), cursor, pageSize)]

\* compare(a, b, dir): the sort comparator of getSorted.
compare(a, b, dir) ==
    IF a = b THEN 0
    ELSE IF dir = "asc" THEN (IF a > b THEN 1 ELSE -1)
         ELSE (IF a < b THEN 1 ELSE -1)

RECURSIVE InsertByVal(_, _, _)
InsertByVal(s, x, dir) ==
    IF s = <<>> THEN <<x>>
    ELSE IF compare(Head(s).val, x.val, dir) > 0
         THEN <<x>> \o s
         ELSE <<Head(s)>> \o InsertByVal(Tail(s), x, dir)
RECURSIVE SortByVal(_, _)
SortByVal(s, dir) ==
    IF s = <<>> THEN <<>>
    ELSE InsertByVal(SortByVal(SubSeq(s, 1, Len(s) - 1), dir), s[Len(s)], dir)

\* entry.payload[dataName] ?? parsedDefaultValue, as None or Some(number).
FieldVal(payload, def) == IF payload.score # None THEN payload.score ELSE def

\* A sorted listing that keeps the entries without a value, sorted as 0.
SortedPageKeepsMissing(live, dir, cursor, def, pageSize) ==
    LET counted == SelectSeq(live, LAMBDA e : e.value.payload.isObj)
        withVal == [i \in 1..Len(counted) |->
            [key |-> counted[i].key, data |-> counted[i].value.payload,
             val |-> IF FieldVal(counted[i].value.payload, def) = None THEN 0
                     ELSE FieldVal(counted[i].value.payload, def)[1]]]
        allEntries == SelectSeq(withVal, LAMBDA e :
            \/ cursor = None
            \/ (dir = "asc" /\ ~(e.val <= cursor[1]))
            \/ (dir # "asc" /\ ~(e.val >= cursor[1])))
        filtered == SortByVal(allEntries, dir)
        page == Take(filtered, pageSize)
    IN [status |-> 200,
        data |-> [i \in 1..Len(page) |-> [key |-> page[i].key, data |-> page[i].data]],
        pageSize |-> pageSize,
        totalItems |-> Len(counted),
        nextCursor |-> IF page = <<>> THEN None ELSE Some(page[Len(page)].val),
        hasMore |-> Len(page) = pageSize /\ Len(filtered) > pageSize,
        source |-> "memory"]
\* getSorted, useDb = false. cursor and def are None or Some(number).
SortedPage(live, dir, cursor, def, pageSize) ==
    LET counted == SelectSeq(live, LAMBDA e :
            e.value.payload.isObj /\ FieldVal(e.value.payload, def) # None)
        withVal == [i \in 1..Len(counted) |->
            [key |-> counted[i].key, data |-> counted[i].value.payload,
             val |-> FieldVal(counted[i].value.payload, def)[1]]]
        allEntries == SelectSeq(withVal, LAMBDA e :
            \/ cursor = None
            \/ (dir = "asc" /\ ~(e.val <= cursor[1]))
            \/ (dir # "asc" /\ ~(e.val >= cursor[1])))
        filtered == SortByVal(allEntries, dir)
        page == Take(filtered, pageSize)
    IN [status |-> 200,
        data |-> [i \in 1..Len(page) |-> [key |-> page[i].key, data |-> page[i].data]],
        pageSize |-> pageSize,
        totalItems |-> Len(counted),
        nextCursor |-> IF page = <<>> THEN None ELSE Some(page[Len(page)].val),
        hasMore |-> Len(page) = pageSize /\ Len(filtered) > pageSize,
        source |-> "memory"]
MemGetSorted(reg, index, dir, cursor, def, pageSize, t) ==
    LET g == get_index_cache(reg, index, t)
        r == IterGet(g.game, 0, t)
    IN [cache |-> SetGame(g.cache, index, r.cache),
        res |-> SortedPage(r.live, dir, cursor, def, pageSize)]

\* A rank count that takes the higher value for the better one whatever the
\* direction.
RankCountIgnoresDir(live, dir, def, targetVal) ==
    Len(SelectSeq(live, LAMBDA e :
        /\ e.value.payload.isObj
        /\ FieldVal(e.value.payload, def) # None
        /\ FieldVal(e.value.payload, def)[1] > targetVal))
\* The loop of getRank over the store: the entries with a payload and a
\* value strictly better than the target's.
RankCount(live, dir, def, targetVal) ==
    Len(SelectSeq(live, LAMBDA e :
        /\ e.value.payload.isObj
        /\ FieldVal(e.value.payload, def) # None
        /\ IF dir = "asc" THEN FieldVal(e.value.payload, def)[1] < targetVal
           ELSE FieldVal(e.value.payload, def)[1] > targetVal))
\* getRank, useDb = false. 404 when get(key) finds nothing; reading a field
\* of a null payload throws (500); 400 when the target has no value and no
\* default was given.
MemGetRank(reg, index, key, dir, def, t) ==
    LET g == get_index_cache(reg, index, t)
        e == TTLGet(g.game, key, t)
        reg1 == SetGame(g.cache, index, e.cache)
    IN IF e.value = None THEN [cache |-> reg1, res |-> [status |-> 404]]
       ELSE IF ~e.value[1].payload.isObj THEN [cache |-> reg1, res |-> [status |-> 500]]
       ELSE IF FieldVal(e.value[1].payload, def) = None
            THEN [cache |-> reg1, res |-> [status |-> 400]]
       ELSE LET r == IterGet(e.cache, 0, t)
                targetVal == FieldVal(e.value[1].payload, def)[1]
            IN [cache |-> SetGame(g.cache, index, r.cache),
                res |-> [status |-> 200,
                         data |-> [rank |-> RankCount(r.live, dir, def, targetVal) + 1]]]

\* --------------------------------------------------------------- sweeper
\* backgroundCleanup. sw.pc: "idle" (waiting for its setTimeout), "loop"
\* (yielded between two indices), "prune" (yielded inside prune of sw.idx at
\* iterator position sw.pos). sw.indices is the rest of the key snapshot.
SwIdle == [pc |-> "idle", indices |-> <<>>, idx |-> "", pos |-> 0, checked |-> 0]

\* The sweeper's schedule. timers: the setTimeout(backgroundCleanup) callbacks
\* that are set and have not fired; running: the executions of
\* backgroundCleanup that have not reached their finally block; lap: parity of
\* the number of executions the timer has started (kept for the claims).
\* At import backgroundCleanup() has run once over the empty registry and has
\* set the first timer.
SchedInit == [timers |-> 1, running |-> 0, lap |-> 0]
\* A fixed-period timer: firing leaves it set.
TimerFiredInterval(sc) ==
    [sc EXCEPT !.running = @ + 1, !.lap = 1 - @]
\* A setTimeout callback fires: the timer is spent and backgroundCleanup
\* starts.
TimerFired(sc) ==
    [sc EXCEPT !.timers = @ - 1, !.running = @ + 1, !.lap = 1 - @]
\* A sweep that sets the next timer as the last statement of its try block.
SweepEndInTry(sc, failed) ==
    IF failed THEN [sc EXCEPT !.running = @ - 1]
    ELSE [sc EXCEPT !.timers = @ + 1, !.running = @ - 1]
\* The end of backgroundCleanup, after the loop (failed = FALSE) or after
\* the catch block (failed = TRUE): finally sets the next timer.
SweepEnd(sc, failed) ==
    [sc EXCEPT !.timers = @ + 1, !.running = @ - 1]

\* A sweeper that drops the namespace after prune whatever its store holds.
AfterPruneAlways(reg, idx, rest) ==
    [cache |-> TTLDelete(reg, idx).cache,
     sw |-> [pc |-> "loop", indices |-> rest, idx |-> "", pos |-> 0, checked |-> 0]]
\* A sweeper that prunes and never drops the namespace afterwards.
AfterPruneNever(reg, idx, rest) ==
    [cache |-> reg,
     sw |-> [pc |-> "loop", indices |-> rest, idx |-> "", pos |-> 0, checked |-> 0]]
\* After prune of idx has ended: drop the namespace if its store is empty,
\* then yield to the event loop.
AfterPrune(reg, idx, rest) ==
    [cache |-> IF Len(MapGet(reg, idx).value) = 0
               THEN TTLDelete(reg, idx).cache ELSE reg,
     sw |-> [pc |-> "loop", indices |-> rest, idx |-> "", pos |-> 0, checked |-> 0]]

\* The for loop over the snapshot, run until the next yield or its end.
RECURSIVE SweepLoop(_, _, _)
SweepLoop(reg, indices, t) ==
    IF indices = <<>> THEN [cache |-> reg, sw |-> SwIdle]
    ELSE LET idx == Head(indices)
             g == TTLGet(reg, idx, t)
         IN IF g.value = None
            THEN [cache |-> g.cache,
                  sw |-> [pc |-> "loop", indices |-> Tail(indices), idx |-> "",
                          pos |-> 0, checked |-> 0]]
            ELSE IF Len(g.value[1]) = 0
                 THEN SweepLoop(TTLDelete(g.cache, idx).cache, Tail(indices), t)
                 ELSE LET p == PruneRun(g.value[1], 0, 0, ChunkSize, t)
                          reg1 == SetGame(g.cache, idx, p.cache)
                      IN IF p.done
                         THEN AfterPrune(reg1, idx, Tail(indices))
                         ELSE [cache |-> reg1,
                               sw |-> [pc |-> "prune", indices |-> Tail(indices),
                                       idx |-> idx, pos |-> p.pos, checked |-> p.checked]]

\* `await game.prune()` resumes after a yield inside the store of s.idx: the
\* walk goes on to its next yield or to its end, and then to AfterPrune.
PruneResumed(reg, s, t) ==
    LET p == PruneRun(MapGet(reg, s.idx).value, s.pos, s.checked, ChunkSize, t)
        reg1 == SetGame(reg, s.idx, p.cache)
    IN IF p.done THEN AfterPrune(reg1, s.idx, s.indices)
       ELSE [cache |-> reg1, sw |-> [s EXCEPT !.pos = p.pos, !.checked = p.checked]]

\* Iterator position of a prune in progress after a handler changed the
\* store: the entries behind the iterator that are still in the store.
AdjustPos(s, old, new) ==
    IF s.pc # "prune" THEN s
    ELSE LET o == IF MapHas(old, s.idx) THEN MapGet(old, s.idx).value ELSE <<>>
             n == IF MapHas(new, s.idx) THEN MapGet(new, s.idx).value ELSE <<>>
         IN [s EXCEPT !.pos = Cardinality({i \in 1..s.pos : MapHas(n, o[i].key)})]

\* ---------------------------------------------------------- durable tier
\* A document of the collection: {index, key, payload, cursor, expireAt},
\* unique per (index, key). expireAt is a Date: a finite timestamp.
Doc(op) == [index |-> op.index, key |-> op.key, payload |-> op.payload,
            cursor |-> op.cursor, expireAt |-> op.expireAt]
SameKey(x, y) == x.index = y.index /\ x.key = y.key

\* An upsert that inserts without looking for the document to update.
UpsertInsert(d, op) == d \cup {Doc(op)}
\* updateOne {filter: {index, key}, update: {payload, cursor, expireAt},
\* upsert: true} / findOneAndUpdate with upsert.
Upsert(d, op) == {x \in d : ~SameKey(x, op)} \cup {Doc(op)}

\* new Date(Date.now() + ttl * 1000)
ExpireAt(ttl, t) == t + ttl * 1000

\* The updateOne operations a batch handler builds from its items; ids number
\* the operations in the order they are created (kept for the claims).
Operations(items, ttl, t, firstId) ==
    [i \in 1..Len(items) |->
        [id |-> firstId + i - 1, index |-> items[i].index, key |-> items[i].key,
         payload |-> items[i].data, cursor |-> t, expireAt |-> ExpireAt(ttl, t)]]

\* bulkWrite(ops): F is the set of positions whose operation the store
\* rejects. Ordered (the default) stops at the first rejected operation;
\* unordered ({ordered: false}) applies every other operation.
BulkApplied(ops, F, ordered) ==
    IF ordered
    THEN {i \in 1..Len(ops) : \A j \in 1..i : j \notin F}
    ELSE {i \in 1..Len(ops) : i \notin F}
\* Ordered operations are applied in sequence: per (index, key) the last wins.
LastPerKey(ops, applied) ==
    {i \in applied : \A j \in applied : (j > i) => ~SameKey(ops[i], ops[j])}
\* Unordered operations are applied in no fixed order: per (index, key) any
\* one of the applied operations may be the one that stays.
WinnerSets(ops, applied) ==
    {W \in SUBSET applied :
        \A i \in applied : Cardinality({j \in W : SameKey(ops[i], ops[j])}) = 1}
RECURSIVE ApplySet(_, _, _)
ApplySet(d, ops, W) ==
    IF W = {} THEN d
    ELSE LET i == CHOOSE i \in W : TRUE
         IN ApplySet(Upsert(d, ops[i]), ops, W \ {i})
\* The collections bulkWrite may leave.
BulkResults(d, ops, F, ordered) ==
    IF ordered
    THEN {ApplySet(d, ops, LastPerKey(ops, BulkApplied(ops, F, TRUE)))}
    ELSE {ApplySet(d, ops, W) : W \in WinnerSets(ops, BulkApplied(ops, F, FALSE))}
\* CacheModel.bulkWrite(operations) of batchSet and globalBatchSet: no
\* options, so ordered.
BatchBulkWrite(d, ops, F) == BulkResults(d, ops, F, TRUE)
\* CacheModel.bulkWrite(ops, { ordered: false }) of DbBatcher.flush.
FlushBulkWrite(d, ops, F) == BulkResults(d, ops, F, FALSE)

\* ---------------------------------------------------------------- DbBatcher
\* A size test that lets the queue reach BATCH_SIZE.
SizeTriggerAbove(len) == len > BATCH_SIZE
\* this.queue.length >= this.BATCH_SIZE, after the push.
SizeTrigger(len) == len >= BATCH_SIZE
\* A timer that flushes full queues only.
TimerTriggerFull(len) == len >= BATCH_SIZE
\* The interval callback's test: this.queue.length > 0.
TimerTrigger(len) == len > 0

\* A flush that snapshots the queue without replacing it.
FlushKeepsQueue(q, fl) ==
    IF Len(q) = 0 THEN [queue |-> q, flushed |-> fl]
    ELSE [queue |-> q, flushed |-> Append(fl, [ops |-> q, st |-> "pending"])]
\* flush(), up to its await: nothing on an empty queue; else the queue is
\* snapshotted and replaced by an empty one and bulkWrite is started.
Flush(q, fl) ==
    IF Len(q) = 0 THEN [queue |-> q, flushed |-> fl]
    ELSE [queue |-> <<>>, flushed |-> Append(fl, [ops |-> q, st |-> "pending"])]

\* add(op)
BatcherAdd(q, fl, op) ==
    LET q1 == Append(q, op)
    IN IF SizeTrigger(Len(q1)) THEN Flush(q1, fl) ELSE [queue |-> q1, flushed |-> fl]
\* addMany(ops)
BatcherAddMany(q, fl, ops) ==
    LET q1 == q \o ops
    IN IF SizeTrigger(Len(q1)) THEN Flush(q1, fl) ELSE [queue |-> q1, flushed |-> fl]

\* A catch block that puts the failed operations back.
FlushCatchRetry(q, ops) == ops \o q
\* The catch block of flush(): the error is logged, the queue stays as it is.
FlushCatch(q, ops) == q

\* The ApiKey collection at start-up and config.keys (the KEYS environment
\* variable):
\* tA may use namespace "a" only, tW is the env key seeded with ["*"], tI is
\* inactive; any other token has no record.
ApiKeyDocs ==
    { [key |-> "tA", allowedIndexes |-> {"a"}, active |-> TRUE],
      [key |-> "tW", allowedIndexes |-> {"*"}, active |-> TRUE],
      [key |-> "tI", allowedIndexes |-> {"a"}, active |-> FALSE] }
ConfigKeys == {"tW"}

\* ------------------------------------------------------------------- state
VARIABLES
    now,        \* Date.now(), in milliseconds
    cache,      \* the namespace registry (memory tier)
    sw,         \* the sweeper's position
    sched,      \* the sweeper's schedule: timers set, executions in progress
    db,         \* the durable collection: a set of documents
    dbReady,    \* mongoose.connection.readyState === 1
    queue,      \* DbBatcher.queue
    authCache,  \* checkKey.ts authCache
    res,        \* the last response sent (or the last step taken)
    hist,       \* per (index, key): the last memory-tier write, for the claims
    flushed,    \* every snapshot flush() has taken, in order: [ops, st] with st
                \* "pending" while its bulkWrite has not answered, then "done"
                \* or "failed" (kept for the claims)
    nops,       \* number of client requests issued so far
    inflight,   \* the set requests of concurrent writers: issued, then done
    apiKeys     \* the ApiKey collection: the permission records

vars == <<now, cache, sw, sched, db, dbReady, queue, authCache, res, hist,
          flushed, nops, inflight, apiKeys>>
durVars == <<db, dbReady, queue, authCache, flushed, inflight, apiKeys>>
batcherFrame == <<now, cache, sw, sched, authCache, hist, inflight, apiKeys>>

HistKeys == Indexes \X Keys
\* The process after start-up: empty registry, empty queue, the sweeper
\* waiting for its first timer (its first run found no namespace).
InitWith(ready) ==
    /\ now = 0
    /\ cache = <<>>
    /\ sw = SwIdle
    /\ sched = SchedInit
    /\ db = {}
    /\ dbReady = ready
    /\ queue = <<>>
    /\ authCache = <<>>
    /\ res = [op |-> "none"]
    /\ hist = [p \in HistKeys |-> None]
    /\ flushed = <<>>
    /\ nops = 0
    /\ inflight = <<>>
    /\ apiKeys = ApiKeyDocs
Init == \E ready \in BOOLEAN : InitWith(ready)
InitMem == InitWith(FALSE)
InitBatcher == InitWith(TRUE)

\* Number of entries held by all stores of a registry.
RECURSIVE EntryCount(_)
EntryCount(reg) ==
    IF reg = <<>> THEN 0 ELSE Len(Head(reg).value.value) + EntryCount(Tail(reg))

\* ------------------------------------------------- memory tier: the actions
\* Time passes.
Tick ==
    /\ now + Step <= MaxTime
    /\ now' = now + Step
    /\ res' = [op |-> "none"]
    /\ UNCHANGED <<cache, sw, sched, hist, nops>>
    /\ UNCHANGED durVars

\* What the last step did to the stores: which operation lazily removed how
\* many expired entries (an explicit delete removes a live or expired entry).
Removal(op, n) == IF n > 0 THEN [op |-> op, removed |-> n] ELSE [op |-> "none"]

\* A handler ran on the memory tier: r is what it returned.
MemStep(r, op) ==
    /\ cache' = r.cache
    /\ sw' = AdjustPos(sw, cache, r.cache)
    /\ sched' = sched
    /\ res' = Removal(op, EntryCount(cache) - EntryCount(r.cache))

\* Batch bodies: no item, one or two.
ItemsOf(idxs) ==
    LET item == [index : idxs, key : Keys, data : MemPayloads]
    IN {<<>>} \cup {<<i>> : i \in item} \cup {<<i, j>> : i \in item, j \in item}

RECURSIVE HistBatch(_, _, _, _)
HistBatch(h, items, ttl, t) ==
    IF items = <<>> THEN h
    ELSE HistBatch([h EXCEPT ![<<Head(items).index, Head(items).key>>] =
                        Some([at |-> t, ttl |-> ttl, data |-> Head(items).data])],
                   Tail(items), ttl, t)

\* POST /:index/:id, persist = false
Set ==
    \E index \in MemIndexes, key \in Keys, data \in MemPayloads, ttl \in TTLs :
        /\ nops < MaxWrites
        /\ nops' = nops + 1
        /\ MemStep(MemSet(cache, index, key, data, ttl, now), "set")
        /\ hist' = [hist EXCEPT ![<<index, key>>] =
                        Some([at |-> now, ttl |-> ttl, data |-> data])]
        /\ UNCHANGED now
        /\ UNCHANGED durVars

\* POST /:index/batch/set, persist = false
BatchSet ==
    \E index \in MemIndexes, ttl \in TTLs : \E items \in ItemsOf({index}) :
        /\ nops + Len(items) <= MaxWrites
        /\ nops' = nops + Len(items)
        /\ MemStep(MemBatchSetIndex(cache, index, items, ttl, now), "batchSet")
        /\ hist' = HistBatch(hist, items, ttl, now)
        /\ UNCHANGED now
        /\ UNCHANGED durVars

\* DELETE /:index/:id, useDb = false
Del ==
    \E index \in MemIndexes, key \in Keys :
        /\ MemStep(MemDel(cache, index, key, now), "del")
        /\ hist' = [hist EXCEPT ![<<index, key>>] = None]
        /\ UNCHANGED <<now, nops>>
        /\ UNCHANGED durVars

\* GET /:index/:id, useDb = false
Get ==
    \E index \in MemIndexes, key \in Keys :
        /\ MemStep(MemGet(cache, index, key, now), "get")
        /\ UNCHANGED <<now, hist, nops>>
        /\ UNCHANGED durVars

KeySeqs == {<<k>> : k \in Keys} \cup {s \in Keys \X Keys : s[1] # s[2]}
\* POST /:index/batch/get, useDb = false
BatchGet ==
    \E index \in MemIndexes, keys \in KeySeqs :
        /\ MemStep(MemBatchGet(cache, index, keys, now), "batchGet")
        /\ UNCHANGED <<now, hist, nops>>
        /\ UNCHANGED durVars

\* Query parameters (pageSize defaults to 5000).
PageSizes == {1, 2, 5000}
Cursors == {None} \cup {Some(t) : t \in Times}
Dirs == {"asc", "desc"}
Defaults == {None, Some(15)}
ValCursors == {None, Some(10), Some(15), Some(20)}

\* GET /:index, useDb = false
GetAll ==
    \E index \in MemIndexes, cursor \in {None, Some(Step)}, pageSize \in {5000} :
        /\ MemStep(MemGetAll(cache, index, cursor, pageSize, now), "getAll")
        /\ UNCHANGED <<now, hist, nops>>
        /\ UNCHANGED durVars

\* GET /:index/sorted, useDb = false
GetSorted ==
    \E index \in MemIndexes, dir \in Dirs, cursor \in {None}, def \in {None},
       pageSize \in {5000} :
        /\ MemStep(MemGetSorted(cache, index, dir, cursor, def, pageSize, now), "getSorted")
        /\ UNCHANGED <<now, hist, nops>>
        /\ UNCHANGED durVars

\* GET /:index/rank/:id, useDb = false
GetRank ==
    \E index \in MemIndexes, key \in Keys, dir \in {"desc"}, def \in Defaults :
        /\ MemStep(MemGetRank(cache, index, key, dir, def, now), "getRank")
        /\ UNCHANGED <<now, hist, nops>>
        /\ UNCHANGED durVars

\* The sweeper's timer fires: snapshot the registry keys and run the loop.
SweepStart ==
    /\ sched.timers > 0
    /\ \E r \in {SweepLoop(cache, MapKeys(cache), now)} :
        /\ cache' = r.cache
        /\ sw' = r.sw
        /\ sched' = IF r.sw.pc = "idle" THEN SweepEnd(TimerFired(sched), FALSE)
                    ELSE TimerFired(sched)
        /\ res' = Removal("sweep", EntryCount(cache) - EntryCount(r.cache))
    /\ UNCHANGED <<now, hist, nops>>
    /\ UNCHANGED durVars

\* The sweeper resumes after the yield between two indices.
SweepResume ==
    /\ sw.pc = "loop"
    /\ \E r \in {SweepLoop(cache, sw.indices, now)} :
        /\ cache' = r.cache
        /\ sw' = r.sw
        /\ sched' = IF r.sw.pc = "idle" THEN SweepEnd(sched, FALSE) ELSE sched
        /\ res' = Removal("sweep", EntryCount(cache) - EntryCount(r.cache))
    /\ UNCHANGED <<now, hist, nops>>
    /\ UNCHANGED durVars

\* prune resumes after a yield inside a store.
PruneResume ==
    /\ sw.pc = "prune"
    /\ \E r \in {PruneResumed(cache, sw, now)} :
          /\ cache' = r.cache
          /\ sw' = r.sw
          /\ sched' = sched
          /\ res' = Removal("sweep", EntryCount(cache) - EntryCount(r.cache))
    /\ UNCHANGED <<now, hist, nops>>
    /\ UNCHANGED durVars

NextMem ==
    \/ Tick \/ Set \/ BatchSet \/ Del \/ Get \/ BatchGet \/ GetAll \/ GetSorted
    \/ GetRank \/ SweepStart \/ SweepResume \/ PruneResume

\* The memory tier alone: requests with persist = false / useDb = false.
SpecMem == InitMem /\ [][NextMem]_vars

\* TTLCache.clear() on the store of a namespace. No route, timer or start-up
\* code of the service calls it: it is a step of the store as a library.
ClearStore ==
    \E index \in MemIndexes :
        /\ MapHas(cache, index)
        /\ MemStep([cache |-> SetGame(cache, index,
                                      TTLClear(MapGet(cache, index).value))], "clear")
        /\ hist' = [p \in HistKeys |-> IF p[1] = index THEN None ELSE hist[p]]
        /\ UNCHANGED <<now, nops>>
        /\ UNCHANGED durVars

\* TTLCache.size() on the store of a namespace, a step of the store as a
\* library like clear(): every expired entry of the store is removed at once.
SizeStore ==
    \E index \in MemIndexes :
        /\ MapHas(cache, index)
        /\ MemStep([cache |-> SetGame(cache, index,
                        TTLSize(MapGet(cache, index).value, 0, 0, now).cache)], "size")
        /\ UNCHANGED <<now, hist, nops>>
        /\ UNCHANGED durVars

NextCache == NextMem \/ ClearStore \/ SizeStore

\* The memory tier with every public operation of its stores: the requests
\* of SpecMem, clear() and size().
SpecCache == InitMem /\ [][NextCache]_vars

\* TTLCache.clear() on the registry, a const private to routes/memory.ts
\* that no code of the module clears. A registry cleared while the sweeper's
\* prune is suspended leaves the sweeper with the store it holds, which is
\* no longer registered.
ClearRegistry ==
    /\ cache' = TTLClear(cache)
    /\ sw' = IF sw.pc = "prune"
             THEN [pc |-> "detached", indices |-> sw.indices, idx |-> sw.idx,
                   pos |-> sw.pos, checked |-> sw.checked,
                   game |-> MapGet(cache, sw.idx).value]
             ELSE sw
    /\ sched' = sched
    /\ res' = Removal("clear", EntryCount(cache))
    /\ hist' = [p \in HistKeys |-> None]
    /\ UNCHANGED <<now, nops>>
    /\ UNCHANGED durVars
\* prune resumes on a store that is no longer registered: the walk goes on
\* in it; at its end an empty store has the name deleted from the registry,
\* whatever is registered under it by then, and the sweeper yields.
DetachedResume ==
    /\ sw.pc = "detached"
    /\ \E p \in {PruneRun(sw.game, sw.pos, sw.checked, ChunkSize, now)} :
       \E r \in {IF ~p.done
                 THEN [cache |-> cache,
                       sw |-> [sw EXCEPT !.pos = p.pos, !.checked = p.checked,
                                         !.game = p.cache]]
                 ELSE [cache |-> IF Len(p.cache) = 0
                                 THEN TTLDelete(cache, sw.idx).cache ELSE cache,
                       sw |-> [pc |-> "loop", indices |-> sw.indices, idx |-> "",
                               pos |-> 0, checked |-> 0]]} :
          /\ cache' = r.cache
          /\ sw' = r.sw
          /\ sched' = sched
          /\ res' = Removal("sweep", EntryCount(cache) - EntryCount(r.cache))
    /\ UNCHANGED <<now, hist, nops>>
    /\ UNCHANGED durVars

NextRegistryCleared == NextCache \/ ClearRegistry \/ DetachedResume

\* The memory tier with clear() called on the registry as well.
SpecRegistryCleared == InitMem /\ [][NextRegistryCleared]_vars

\* ------------------------------------------------ memory tier: the claims
\* The store registered for index, or the empty store.
StoreOf(index) == IF MapHas(cache, index) THEN MapGet(cache, index).value ELSE <<>>
\* What TTLCache.get(key) on the store of index returns now, and leaves.
GetNow(index, key) == TTLGet(get_index_cache(cache, index, now).game, key, now)
\* The value the last write of (index, key) stored.
Written(h) == [payload |-> h.data, cursor |-> h.at]

\* C7: an entry written with ttlSeconds > 0 is returned by get at every
\* instant before ttlSeconds seconds have passed since the write, and at
\* every instant after that get returns nothing and the entry is no longer
\* in the store once that get has run.
C7_ExpiryAfterTtl ==
    \A p \in HistKeys :
        (hist[p] # None /\ hist[p][1].ttl > 0) =>
            LET h == hist[p][1]
                g == GetNow(p[1], p[2])
            IN /\ (now < h.at + h.ttl * 1000) => g.value = Some(Written(h))
               /\ (now > h.at + h.ttl * 1000) =>
                      (g.value = None /\ ~MapHas(g.cache, p[2]))

\* C7 witness: an entry written with a positive ttl has outlived it and a
\* get has just removed it from its store.
C7_Witness ==
    \E p \in HistKeys :
        /\ hist[p] # None /\ hist[p][1].ttl > 0
        /\ now > hist[p][1].at + hist[p][1].ttl * 1000
        /\ res = [op |-> "get", removed |-> 1]
        /\ MapHas(cache, p[1]) /\ ~MapHas(StoreOf(p[1]), p[2])

\* C8: an entry written with ttlSeconds <= 0 and not deleted or overwritten
\* since is returned by get, with the value written, at every later time and
\* after any number of reads, prunes and sweeps.
C8_InfiniteTtl ==
    \A p \in HistKeys :
        (hist[p] # None /\ hist[p][1].ttl <= 0) =>
            GetNow(p[1], p[2]).value = Some(Written(hist[p][1]))

\* C8 witness: an entry written with ttl <= 0 at time 0 is still in its store
\* at the end of the clock, while the sweeper is at work.
C8_Witness ==
    \E p \in HistKeys :
        /\ hist[p] # None /\ hist[p][1].ttl <= 0 /\ hist[p][1].at = 0
        /\ now = MaxTime
        /\ sw.pc # "idle"
        /\ GetNow(p[1], p[2]).value # None

\* The keys of index whose entry is in the store and has not expired.
LiveKeys(index) ==
    {k \in Keys : MapHas(StoreOf(index), k) /\
        LET e == MapGet(StoreOf(index), k).expiry IN e.inf \/ e.at >= now}
ItemKeys(items) == {items[i].key : i \in 1..Len(items)}
\* Live entries a sorted listing or a rank counts: those with a value.
Valued(index, def) ==
    {k \in LiveKeys(index) :
        LET pl == MapGet(StoreOf(index), k).value.payload
        IN pl.isObj /\ FieldVal(pl, def) # None}

\* C10: in every reachable state, whatever has or has not been swept, every
\* memory-tier read answers from unexpired entries only: get, batch get, the
\* recency listing, the sorted listing and rank return no expired entry and
\* count none in totalItems or in the rank.
C10_NoStaleReads ==
    \A index \in MemIndexes :
        /\ \A key \in Keys :
              GetNow(index, key).value # None => key \in LiveKeys(index)
        /\ \A keys \in KeySeqs :
              ItemKeys(MemBatchGet(cache, index, keys, now).res.data)
                  \subseteq LiveKeys(index)
        /\ \A cursor \in Cursors, pageSize \in PageSizes :
              LET r == MemGetAll(cache, index, cursor, pageSize, now).res
              IN /\ ItemKeys(r.data) \subseteq LiveKeys(index)
                 /\ r.totalItems <= Cardinality(LiveKeys(index))
        /\ \A dir \in Dirs, cursor \in ValCursors, def \in Defaults,
              pageSize \in PageSizes :
              LET r == MemGetSorted(cache, index, dir, cursor, def, pageSize, now).res
              IN /\ ItemKeys(r.data) \subseteq LiveKeys(index)
                 /\ r.totalItems <= Cardinality(Valued(index, def))
        /\ \A key \in Keys, dir \in Dirs, def \in Defaults :
              LET r == MemGetRank(cache, index, key, dir, def, now).res
              IN r.status = 200 =>
                    /\ key \in LiveKeys(index)
                    /\ r.data.rank <= Cardinality(Valued(index, def))

\* C10 witness: a sorted listing has just met an expired entry (and dropped
\* it) in a store that still holds a live one.
C10_Witness ==
    /\ res = [op |-> "getSorted", removed |-> 1]
    /\ \E index \in MemIndexes : LiveKeys(index) # {}

\* ---------------------------------------------------- batcher: the actions
\* Items of the buffered requests of the batcher specification.
BatchItems ==
    LET item == [index : {"a"}, key : Keys, data : {Obj(Some(10))}]
    IN {<<i>> : i \in item} \cup {<<i, j>> : i \in item, j \in item}

\* dbBatcher.add(op) with one updateOne operation.
BAdd ==
    \E items \in {b \in BatchItems : Len(b) = 1}, ttl \in {1} :
        /\ nops < MaxOps
        /\ LET r == BatcherAdd(queue, flushed, Operations(items, ttl, now, nops + 1)[1])
           IN queue' = r.queue /\ flushed' = r.flushed
        /\ nops' = nops + 1
        /\ res' = [op |-> "add"]
        /\ UNCHANGED <<db, dbReady>>
        /\ UNCHANGED batcherFrame

\* POST /batch/buffered, persist = true, by a token allowed everywhere while
\* the store is connected: dbBatcher.addMany(operations).
BAddMany ==
    \E items \in BatchItems, ttl \in {1} :
        /\ nops + Len(items) <= MaxOps
        /\ dbReady
        /\ LET r == BatcherAddMany(queue, flushed, Operations(items, ttl, now, nops + 1))
           IN queue' = r.queue /\ flushed' = r.flushed
        /\ nops' = nops + Len(items)
        /\ res' = [op |-> "addMany"]
        /\ UNCHANGED <<db, dbReady>>
        /\ UNCHANGED batcherFrame

\* The setInterval callback of start().
BTimer ==
    /\ LET r == IF TimerTrigger(Len(queue)) THEN Flush(queue, flushed)
                ELSE [queue |-> queue, flushed |-> flushed]
       IN queue' = r.queue /\ flushed' = r.flushed
    /\ res' = [op |-> "timer"]
    /\ UNCHANGED <<db, dbReady, nops>>
    /\ UNCHANGED batcherFrame

\* The bulkWrite of a pending flush answers: F is what the store rejected.
\* With F empty the await returns, else it throws into the catch block.
BFlushDone ==
    \E i \in 1..Len(flushed) :
        /\ flushed[i].st = "pending"
        /\ \E F \in SUBSET (1..Len(flushed[i].ops)) :
            /\ db' \in FlushBulkWrite(db, flushed[i].ops, F)
            /\ flushed' = [flushed EXCEPT ![i].st = IF F = {} THEN "done" ELSE "failed"]
            /\ queue' = IF F = {} THEN queue ELSE FlushCatch(queue, flushed[i].ops)
            /\ res' = [op |-> IF F = {} THEN "flushOk" ELSE "flushError", flush |-> i]
        /\ UNCHANGED <<dbReady, nops>>
        /\ UNCHANGED batcherFrame

NextBatcher == BAdd \/ BAddMany \/ BTimer \/ BFlushDone

\* The write-behind batcher and the collection it writes to.
SpecBatcher == InitBatcher /\ [][NextBatcher]_vars
\* The same with the interval timer of start(), which setInterval keeps firing.
SpecBatcherLive == SpecBatcher /\ WF_vars(BTimer)

\* ----------------------------------------------------- batcher: the claims
Ids(ops) == {ops[i].id : i \in 1..Len(ops)}
\* How often operation id sits in the queue, and in how many snapshots.
InQueue(id) == Cardinality({i \in 1..Len(queue) : queue[i].id = id})
InFlushes(id) ==
    Cardinality({<<i, j>> \in (1..Len(flushed)) \X (1..(MaxOps + 1)) :
        j <= Len(flushed[i].ops) /\ flushed[i].ops[j].id = id})
LastFlush == flushed[Len(flushed)]

\* C3: every operation handed to add/addMany is either still queued or in
\* the snapshot of exactly one flush, never in both and never in neither,
\* whatever the order of enqueues, size-triggered and timer-triggered flushes.
C3_ExactlyOneFlush ==
    \A id \in 1..nops : InQueue(id) + InFlushes(id) = 1

\* C3 witness: two flushes are in progress at once, one started by the timer
\* and one by the size trigger, and every operation is in exactly one of them.
C3_Witness ==
    /\ Len(flushed) >= 2
    /\ \A i \in 1..Len(flushed) : flushed[i].st = "pending"
    /\ \E i \in 1..Len(flushed) : Len(flushed[i].ops) >= BATCH_SIZE
    /\ \E i \in 1..Len(flushed) : Len(flushed[i].ops) < BATCH_SIZE
    /\ nops = MaxOps /\ \A id \in 1..nops : InFlushes(id) = 1

\* The operations of a failed flush are in no queue and in no other flush.
C4_Dropped ==
    \A i \in 1..Len(flushed) :
        flushed[i].st = "failed" =>
            \A id \in Ids(flushed[i].ops) : InQueue(id) = 0 /\ InFlushes(id) = 1
\* The step in which a failure is caught leaves the queue as it was.
C4_CatchStep ==
    \A i \in 1..Len(flushed) :
        (flushed[i].st = "pending" /\ flushed'[i].st = "failed") => queue' = queue
\* C4: the operations of a flush whose bulkWrite failed are in no queue and
\* in no other flush afterwards, and the step in which the failure is caught
\* leaves the queue as it was: nothing is re-queued or retried.
C4_NoRetry == []C4_Dropped /\ [][C4_CatchStep]_vars

\* C4 witness: a bulkWrite has just failed while operations enqueued after
\* its snapshot wait in the queue.
C4_Witness ==
    /\ res.op = "flushError"
    /\ flushed[res.flush].st = "failed"
    /\ queue # <<>>

\* An enqueue that brings the queue to BATCH_SIZE or more flushes at once.
C5_EnqueueStep ==
    (nops' > nops /\ Len(queue) + (nops' - nops) >= BATCH_SIZE) =>
        /\ queue' = <<>>
        /\ Len(flushed') = Len(flushed) + 1
        /\ flushed'[Len(flushed')].st = "pending"
        /\ Len(flushed'[Len(flushed')].ops) = Len(queue) + (nops' - nops)
        /\ Ids(flushed'[Len(flushed')].ops) = Ids(queue) \cup ((nops + 1)..nops')
        /\ SubSeq(flushed'[Len(flushed')].ops, 1, Len(queue)) = queue
\* A bulkWrite that succeeds leaves every operation's document stored.
C5_SuccessStep ==
    \A i \in 1..Len(flushed) :
        (flushed[i].st = "pending" /\ flushed'[i].st = "done") =>
            \A j \in 1..Len(flushed[i].ops) :
                \E d \in db' : \E k \in 1..Len(flushed[i].ops) :
                    SameKey(d, flushed[i].ops[j]) /\ d = Doc(flushed[i].ops[k])
\* C5: an add/addMany that brings the queue to BATCH_SIZE or more returns
\* with the queue empty and everything queued, the new operations included,
\* in one new pending snapshot; and when the bulkWrite of a snapshot
\* succeeds, the collection holds a document for every (index, key) of it,
\* written by an operation of that snapshot.
C5_SizeTrigger == [][C5_EnqueueStep /\ C5_SuccessStep]_vars

\* C5 witness: a snapshot of BATCH_SIZE operations, taken by the size
\* trigger, has been written to the collection.
C5_Witness ==
    \E i \in 1..Len(flushed) :
        /\ Len(flushed[i].ops) >= BATCH_SIZE
        /\ flushed[i].st = "done"
        /\ \A j \in 1..Len(flushed[i].ops) : \E d \in db : SameKey(d, flushed[i].ops[j])

\* A tick of the interval timer flushes whatever is queued.
C6_TimerStep ==
    res'.op = "timer" =>
        /\ queue' = <<>>
        /\ queue # <<>> => flushed' = Append(flushed, [ops |-> queue, st |-> "pending"])
\* C6: every tick of the interval timer leaves the queue empty, having put a
\* non-empty queue into a new snapshot whatever its length; and with the
\* timer firing again and again every queued operation reaches a snapshot.
C6_PeriodicFlush ==
    /\ [][C6_TimerStep]_vars
    /\ \A id \in 1..MaxOps : (InQueue(id) > 0) ~> (InFlushes(id) > 0)

\* C6 witness: the timer has just flushed a queue shorter than BATCH_SIZE.
C6_Witness ==
    /\ res.op = "timer"
    /\ flushed # <<>>
    /\ Len(LastFlush.ops) < BATCH_SIZE
    /\ LastFlush.st = "pending"
    /\ queue = <<>>

\* ------------------------------------------------------- access control
CACHE_TTL == 60 * 1000

\* keyHandler, from its start to its await or to its end when it has none:
\* pc "answer" (it answers with status), "lookup" (it awaits the ApiKey
\* lookup) or "next" (res.locals.allowedIndexes is set to allowed and it goes
\* on to its permission check). auth is the Bearer token, or None when there
\* is no usable Authorization header.
KeyAnswer(status, ac) == [pc |-> "answer", status |-> status, allowed |-> {}, authCache |-> ac]
KeyNext(allowed, ac) == [pc |-> "next", status |-> 0, allowed |-> allowed, authCache |-> ac]
\* A keyHandler that uses a cached entry whatever its expiry.
KeyHandlerEnterStale(ac, auth, ready, t) ==
    IF auth = None THEN KeyAnswer(401, ac)
    ELSE LET token == auth[1] IN
         IF MapHas(ac, token)
         THEN KeyNext(MapGet(ac, token).allowedIndexes, ac)
         ELSE IF ready
              THEN [pc |-> "lookup", status |-> 0, allowed |-> {}, authCache |-> ac]
              ELSE IF token \in ConfigKeys THEN KeyNext({"*"}, ac)
                   ELSE KeyAnswer(401, ac)
\* A keyHandler that caches the wildcard grant of its fallback.
KeyHandlerEnterCachesFallback(ac, auth, ready, t) ==
    IF auth = None THEN KeyAnswer(401, ac)
    ELSE LET token == auth[1] IN
         IF MapHas(ac, token) /\ MapGet(ac, token).expiry > t
         THEN KeyNext(MapGet(ac, token).allowedIndexes, ac)
         ELSE IF ready
              THEN [pc |-> "lookup", status |-> 0, allowed |-> {}, authCache |-> ac]
              ELSE IF token \in ConfigKeys
                   THEN KeyNext({"*"}, MapSet(ac, token,
                            [allowedIndexes |-> {"*"}, expiry |-> t + CACHE_TTL]))
                   ELSE KeyAnswer(401, ac)
KeyHandlerEnter(ac, auth, ready, t) ==
    IF auth = None THEN KeyAnswer(401, ac)
    ELSE LET token == auth[1] IN
         IF MapHas(ac, token) /\ MapGet(ac, token).expiry > t
         THEN KeyNext(MapGet(ac, token).allowedIndexes, ac)
         ELSE IF ready
              THEN [pc |-> "lookup", status |-> 0, allowed |-> {}, authCache |-> ac]
              ELSE IF token \in ConfigKeys THEN KeyNext({"*"}, ac)
                   ELSE KeyAnswer(401, ac)

\* A keyHandler that lets the token through when its lookup finds nothing.
KeyHandlerResumeLenient(ac, token, docs, t, lookupFails) ==
    LET found == {d \in docs : d.key = token /\ d.active}
    IN IF lookupFails THEN KeyAnswer(500, ac)
       ELSE IF found = {} THEN KeyNext({"*"}, ac)
       ELSE LET doc == CHOOSE d \in found : TRUE
            IN KeyNext(doc.allowedIndexes,
                       MapSet(ac, token, [allowedIndexes |-> doc.allowedIndexes,
                                          expiry |-> t + CACHE_TTL]))
\* keyHandler after its await: ApiKeyModel.findOne({key, active: true}) has
\* answered from the collection docs, or has thrown (lookupFails); ac and t
\* are the authCache and Date.now() of the moment it resumes.
KeyHandlerResume(ac, token, docs, t, lookupFails) ==
    LET found == {d \in docs : d.key = token /\ d.active}
    IN IF lookupFails THEN KeyAnswer(500, ac)
       ELSE IF found = {} THEN KeyAnswer(401, ac)
       ELSE LET doc == CHOOSE d \in found : TRUE
            IN KeyNext(doc.allowedIndexes,
                       MapSet(ac, token, [allowedIndexes |-> doc.allowedIndexes,
                                          expiry |-> t + CACHE_TTL]))

\* The second part of keyHandler, on req.path split at "/" (segs: what
\* follows the leading "/", as sent, neither decoded nor changed in case):
\* TRUE when the request goes on to the router, FALSE when it is answered
\* 403. An empty first segment is no targetIndex and is let through.
PathAllowed(allowed, segs) ==
    LET isUniversal == "*" \in allowed IN
    IF segs = <<"batch", "set">> \/ segs = <<"batch", "buffered">> THEN TRUE
    ELSE IF Len(segs) >= 1 /\ segs[1] # "" /\ segs[1] \notin {"batch", "sorted", "rank"}
         THEN ~(~isUniversal /\ segs[1] \notin allowed)
         ELSE TRUE

\* The upper-case form of a letter.
UpperOf(c) ==
    CASE c = "a" -> "A"
      [] c = "b" -> "B"
      [] c = "c" -> "C"
      [] c = "d" -> "D"
      [] c = "e" -> "E"
      [] c = "f" -> "F"
      [] c = "g" -> "G"
      [] c = "h" -> "H"
      [] c = "i" -> "I"
      [] c = "j" -> "J"
      [] c = "k" -> "K"
      [] c = "l" -> "L"
      [] c = "m" -> "M"
      [] c = "n" -> "N"
      [] c = "o" -> "O"
      [] c = "p" -> "P"
      [] c = "q" -> "Q"
      [] c = "r" -> "R"
      [] c = "s" -> "S"
      [] c = "t" -> "T"
      [] c = "u" -> "U"
      [] c = "v" -> "V"
      [] c = "w" -> "W"
      [] c = "x" -> "X"
      [] c = "y" -> "Y"
      [] c = "z" -> "Z"
      [] OTHER -> c
\* The letters of each literal word of the route patterns.
LettersOf(word) ==
    CASE word = "batch" -> <<"b", "a", "t", "c", "h">>
      [] word = "set" -> <<"s", "e", "t">>
      [] word = "get" -> <<"g", "e", "t">>
      [] word = "buffered" -> <<"b", "u", "f", "f", "e", "r", "e", "d">>
      [] word = "sorted" -> <<"s", "o", "r", "t", "e", "d">>
      [] word = "rank" -> <<"r", "a", "n", "k">>
\* Every spelling of a sequence of letters, each in lower or in upper case.
RECURSIVE Spellings(_)
Spellings(w) ==
    IF w = <<>> THEN {""}
    ELSE {c \o rest : c \in {w[1], UpperOf(w[1])}, rest \in Spellings(Tail(w))}
\* The path segments each literal word matches.
SpellingsOf ==
    [word \in {"batch", "set", "get", "buffered", "sorted", "rank"}
        |-> Spellings(LettersOf(word))]
\* A literal word of a route pattern matches a path segment: the router is
\* made by Router() with no options, so whatever the case of each letter.
Lit(seg, word) == seg \in SpellingsOf[word]

\* The value of a hexadecimal digit, -1 for any other character.
HexVal(c) ==
    CASE c = "0" -> 0 [] c = "1" -> 1 [] c = "2" -> 2 [] c = "3" -> 3
      [] c = "4" -> 4 [] c = "5" -> 5 [] c = "6" -> 6 [] c = "7" -> 7
      [] c = "8" -> 8 [] c = "9" -> 9
      [] c \in {"a", "A"} -> 10 [] c \in {"b", "B"} -> 11 [] c \in {"c", "C"} -> 12
      [] c \in {"d", "D"} -> 13 [] c \in {"e", "E"} -> 14 [] c \in {"f", "F"} -> 15
      [] OTHER -> -1
\* The characters a path of the model is made of, in the order of their
\* codes: 32 to 95 and 97 to 126.
AsciiLow ==
    " !\"#$%&'()*+,-./0123456789:;<=>?@ABCDEFGHIJKLMNOPQRSTUVWXYZ[\\]^_"
AsciiHigh == "abcdefghijklmnopqrstuvwxyz{|}~"
Printable == (32..95) \cup (97..126)
CharOf(code) ==
    IF code <= 95 THEN SubSeq(AsciiLow, code - 31, code - 31)
    ELSE SubSeq(AsciiHigh, code - 96, code - 96)
CodeOf(c) == CHOOSE code \in Printable : CharOf(code) = c
\* The octet of the escape %XX that starts at position i of seg, -1 when
\* what stands there is no such escape.
Octet(seg, i) ==
    IF i + 2 > Len(seg) \/ SubSeq(seg, i, i) # "%" THEN -1
    ELSE LET digit == [j \in 1..2 |-> HexVal(SubSeq(seg, i + j, i + j))]
         IN IF digit[1] < 0 \/ digit[2] < 0 THEN -1 ELSE 16 * digit[1] + digit[2]
\* The number of octets of the UTF-8 sequence that starts with octet b, 0
\* when no sequence starts with it, and the bits of b that mark that number.
Utf8Len(b) ==
    IF b < 0 THEN 0
    ELSE IF b < 128 THEN 1
    ELSE IF b < 192 THEN 0
    ELSE IF b < 224 THEN 2
    ELSE IF b < 240 THEN 3
    ELSE IF b < 248 THEN 4
    ELSE 0
Utf8Mark == <<0, 192, 224, 240>>
\* The least code point a sequence of n octets may encode.
Utf8Least == <<0, 128, 2048, 65536>>
\* The octets of the k escapes that start at position i of seg.
RECURSIVE Octets(_, _, _)
Octets(seg, i, k) ==
    IF k = 0 THEN <<>> ELSE <<Octet(seg, i)>> \o Octets(seg, i + 3, k - 1)
\* The value of the continuation octets o[j], o[j + 1], ... added to v, six
\* bits each; -1 when one of them is no continuation octet (10xxxxxx).
RECURSIVE Continued(_, _, _)
Continued(o, j, v) ==
    IF j > Len(o) THEN v
    ELSE IF o[j] < 128 \/ o[j] > 191 THEN -1
    ELSE Continued(o, j + 1, v * 64 + (o[j] - 128))
\* Code point v, read from n octets, or -1 when the octets are no valid
\* encoding of a code point: an octet that was no continuation (v = -1), an
\* overlong form, a surrogate, a value above 10FFFF.
ValidCodePoint(v, n) ==
    IF v < Utf8Least[n] \/ v > 1114111 \/ (v >= 55296 /\ v <= 57343) THEN -1 ELSE v
\* The code point of the UTF-8 sequence of octets o.
CodePoint(o) == ValidCodePoint(Continued(o, 2, o[1] - Utf8Mark[Len(o)]), Len(o))
\* Code point v before the code points of rest.
Decoded(v, rest) ==
    IF v < 0 \/ rest = None THEN None ELSE Some(<<v>> \o rest[1])
\* The code points decodeURIComponent makes of seg: Some(sequence), or None
\* when it throws URIError. DecodeEscape: seg starts with an escape whose
\* octet announces a sequence of n octets.
RECURSIVE DecodeCodes(_)
RECURSIVE DecodeEscape(_, _)
DecodeCodes(seg) ==
    IF seg = "" THEN Some(<<>>)
    ELSE IF SubSeq(seg, 1, 1) = "%" THEN DecodeEscape(seg, Utf8Len(Octet(seg, 1)))
    ELSE Decoded(CodeOf(SubSeq(seg, 1, 1)), DecodeCodes(SubSeq(seg, 2, Len(seg))))
DecodeEscape(seg, n) ==
    IF n = 0 \/ Len(seg) < 3 * n THEN None
    ELSE Decoded(CodePoint(Octets(seg, 1, n)),
                 DecodeCodes(SubSeq(seg, 3 * n + 1, Len(seg))))
\* The string of a sequence of code points. A string of the model holds the
\* characters of Printable only: a name with another character in it is
\* written as a line feed followed by its code points, so that two names
\* are equal exactly when their strings are.
RECURSIVE Chars(_)
Chars(codes) ==
    IF codes = <<>> THEN "" ELSE CharOf(Head(codes)) \o Chars(Tail(codes))
RECURSIVE Listed(_)
Listed(codes) ==
    IF Len(codes) = 1 THEN ToString(codes[1])
    ELSE ToString(Head(codes)) \o "," \o Listed(Tail(codes))
StringOf(codes) ==
    IF \A i \in 1..Len(codes) : codes[i] \in Printable THEN Chars(codes)
    ELSE "\n" \o Listed(codes)
\* decodeURIComponent on a route parameter: Some(the decoded string), or None
\* when it throws URIError.
DecodeParam(seg) ==
    IF \A i \in 1..Len(seg) : SubSeq(seg, i, i) # "%" THEN Some(seg)
    ELSE LET codes == DecodeCodes(seg)
         IN IF codes = None THEN None ELSE Some(StringOf(codes[1]))

\* The segments the patterns match: routing is not strict, so that one "/"
\* at the end of the path counts for nothing.
Trimmed(segs) ==
    IF segs # <<>> /\ segs[Len(segs)] = "" THEN SubSeq(segs, 1, Len(segs) - 1) ELSE segs
\* The positions, in path s, of the parameters of a pattern matching it,
\* whatever the method of its route: /:index, /:index/:id (which any two
\* segments match), /:index/batch/set, /:index/batch/get, /:index/rank/:id.
ParamSegs(s) ==
    CASE Len(s) = 1 -> {1}
      [] Len(s) = 2 -> {1, 2}
      [] Len(s) = 3 /\ Lit(s[2], "batch") /\ (Lit(s[3], "set") \/ Lit(s[3], "get")) -> {1}
      [] Len(s) = 3 /\ Lit(s[2], "rank") -> {1, 3}
      [] OTHER -> {}

\* The router of routes/memory.ts on method m and path s, p[i] being segment
\* s[i] decoded: the first route, in registration order, whose method and
\* pattern match. A parameter matches a segment that is not empty, and index
\* and id are the decoded segments; a pattern that matches with a parameter
\* that does not decode ends the routing with a URIError (BadParam),
\* whatever the method of its route. An OPTIONS request is answered by the
\* router itself (Options) when a pattern matches its path.
NoRoute == [h |-> "none", index |-> "", id |-> ""]
BadParam == [h |-> "badParam", index |-> "", id |-> ""]
Options == [h |-> "options", index |-> "", id |-> ""]
Matched(m, s, p) ==
    LET n == Len(s) IN
    IF \E i \in 1..n : s[i] = "" THEN NoRoute
    ELSE IF \E i \in ParamSegs(s) : p[i] = None THEN BadParam
    ELSE IF m = "POST" /\ n = 2 /\ Lit(s[1], "batch") /\ Lit(s[2], "buffered")
        THEN [h |-> "bufferedBatchSet", index |-> "", id |-> ""]
    ELSE IF m = "POST" /\ n = 2 /\ Lit(s[1], "batch") /\ Lit(s[2], "set")
        THEN [h |-> "globalBatchSet", index |-> "", id |-> ""]
    ELSE IF m = "POST" /\ n = 3 /\ Lit(s[2], "batch") /\ Lit(s[3], "set")
        THEN [h |-> "batchSet", index |-> p[1][1], id |-> ""]
    ELSE IF m = "POST" /\ n = 3 /\ Lit(s[2], "batch") /\ Lit(s[3], "get")
        THEN [h |-> "batchGet", index |-> p[1][1], id |-> ""]
    ELSE IF m = "POST" /\ n = 2
        THEN [h |-> "set", index |-> p[1][1], id |-> p[2][1]]
    ELSE IF m = "DELETE" /\ n = 2
        THEN [h |-> "del", index |-> p[1][1], id |-> p[2][1]]
    ELSE IF m = "GET" /\ n = 2 /\ Lit(s[2], "sorted")
        THEN [h |-> "getSorted", index |-> p[1][1], id |-> ""]
    ELSE IF m = "GET" /\ n = 3 /\ Lit(s[2], "rank")
        THEN [h |-> "getRank", index |-> p[1][1], id |-> p[3][1]]
    ELSE IF m = "GET" /\ n = 2
        THEN [h |-> "get", index |-> p[1][1], id |-> p[2][1]]
    ELSE IF m = "GET" /\ n = 1
        THEN [h |-> "getAll", index |-> p[1][1], id |-> ""]
    ELSE IF m = "OPTIONS" /\ ParamSegs(s) # {} THEN Options
    ELSE NoRoute
\* The segments of a path, decoded.
DecodedSegs(s) == [i \in 1..Len(s) |-> DecodeParam(s[i])]
\* The route of a request: no route is registered for HEAD, which the GET
\* routes serve, and the patterns are matched with the path trimmed.
Route(method, segs) ==
    Matched(IF method = "HEAD" THEN "GET" ELSE method,
            Trimmed(segs), DecodedSegs(Trimmed(segs)))

\* A permission loop that looks at the first item only.
BatchForbiddenFirstOnly(allowed, items) ==
    "*" \notin allowed /\ items # <<>> /\ items[1].index \notin allowed
\* The per-item permission check of globalBatchSet and bufferedBatchSet:
\* TRUE when the loop answers 403.
BatchForbidden(allowed, items) ==
    "*" \notin allowed /\ \E i \in 1..Len(items) : items[i].index \notin allowed

\* ------------------------------------------------- durable tier: reads
\* No query of routes/memory.ts mentions expireAt: a document is matched for
\* as long as it is in the collection.
DocsOf(d, index) == {x \in d : x.index = index}

\* The orders in which the store may return the documents S sorted by their
\* field sv (dir "asc" or "desc"): documents with equal sv come in any order.
SortedSeqs(S, dir) ==
    {s \in [1..Cardinality(S) -> S] :
        /\ \A i, j \in 1..Cardinality(S) : i # j => s[i] # s[j]
        /\ \A i, j \in 1..Cardinality(S) :
              i < j => IF dir = "asc" THEN s[i].sv <= s[j].sv ELSE s[i].sv >= s[j].sv}
\* The orders of an unsorted find().
AnySeqs(S) ==
    {s \in [1..Cardinality(S) -> S] :
        \A i, j \in 1..Cardinality(S) : i # j => s[i] # s[j]}
Items(page) == [i \in 1..Len(page) |-> [key |-> page[i].key, data |-> page[i].payload]]

\* get, useDb = true: findOne({index, key}); data is the payload or null.
DbGet(d, index, key) ==
    LET found == {x \in DocsOf(d, index) : x.key = key}
    IN [status |-> 200,
        data |-> IF found = {} THEN NullPayload ELSE (CHOOSE x \in found : TRUE).payload]

\* batchGet, useDb = true: find({index, key: {$in: keys}}); the responses it
\* may send (the found documents in the order the store returns them).
DbBatchGet(d, index, keys) ==
    LET found == {x \in DocsOf(d, index) : \E i \in 1..Len(keys) : keys[i] = x.key}
    IN {[status |-> 200, data |-> Items(s)] : s \in AnySeqs(found)}

\* getAll, useDb = true.
DbGetAll(d, index, cursor, pageSize) ==
    LET noCursor == cursor = None \/ cursor[1] = 0
        q == {x \in DocsOf(d, index) : noCursor \/ x.cursor < cursor[1]}
        withSv == {[key |-> x.key, payload |-> x.payload, sv |-> x.cursor] : x \in q}
    IN {LET docs == Take(s, pageSize) IN
        [status |-> 200,
         data |-> Items(docs),
         pageSize |-> pageSize,
         totalItems |-> Cardinality(DocsOf(d, index)),
         nextCursor |-> IF docs = <<>> THEN None ELSE Some(docs[Len(docs)].sv),
         hasMore |-> docs # <<>> /\
                     \E x \in DocsOf(d, index) : x.cursor < docs[Len(docs)].sv,
         source |-> "db"] : s \in SortedSeqs(withSv, "desc")}

\* getSorted, useDb = true: the aggregation with $ifNull when a default
\* value is given, else find() on the documents that have the field.
DbGetSorted(d, index, dir, cursor, def, pageSize) ==
    LET all == DocsOf(d, index)
        valued == {x \in all : FieldVal(x.payload, def) # None}
        past(v, c) == IF dir = "asc" THEN v > c ELSE v < c
        q == {x \in valued : cursor = None \/ past(FieldVal(x.payload, def)[1], cursor[1])}
        withSv == {[key |-> x.key, payload |-> x.payload,
                    sv |-> FieldVal(x.payload, def)[1]] : x \in q}
    IN {LET docs == Take(s, pageSize) IN
        [status |-> 200,
         data |-> Items(docs),
         pageSize |-> pageSize,
         totalItems |-> IF def # None THEN Cardinality(all) ELSE Cardinality(valued),
         nextCursor |-> IF docs = <<>> THEN None ELSE Some(docs[Len(docs)].sv),
         hasMore |-> docs # <<>> /\
                     \E x \in valued : past(FieldVal(x.payload, def)[1], docs[Len(docs)].sv),
         source |-> "db"] : s \in SortedSeqs(withSv, dir)}

\* getRank, useDb = true. 404 without the document; reading a field of a
\* null payload throws (500); 400 without a value and a default.
DbGetRank(d, index, key, dir, def) ==
    LET found == {x \in DocsOf(d, index) : x.key = key} IN
    IF found = {} THEN [status |-> 404]
    ELSE LET doc == CHOOSE x \in found : TRUE IN
         IF ~doc.payload.isObj THEN [status |-> 500]
         ELSE IF FieldVal(doc.payload, def) = None THEN [status |-> 400]
         ELSE LET targetVal == FieldVal(doc.payload, def)[1]
                  better == {x \in DocsOf(d, index) :
                      /\ FieldVal(x.payload, def) # None
                      /\ IF dir = "asc" THEN FieldVal(x.payload, def)[1] < targetVal
                         ELSE FieldVal(x.payload, def)[1] > targetVal}
              IN [status |-> 200, data |-> [rank |-> Cardinality(better) + 1]]

\* ------------------------------------------------------- route handlers
\* The stores a handler works on: s = [cache, db, queue, flushed]. A handler
\* returns the set of outcomes it can have: the stores it leaves, the status
\* it answers with and the (index, key) pairs it wrote durably.
Out(s, status, wrote) ==
    [cache |-> s.cache, db |-> s.db, queue |-> s.queue, flushed |-> s.flushed,
     status |-> status, wrote |-> wrote]
ItemPairs(items) == {<<items[i].index, items[i].key>> : i \in 1..Len(items)}
\* The items of /:index/batch/set carry no index: it is the route parameter.
WithIndex(items, index) ==
    [i \in 1..Len(items) |-> [index |-> index, key |-> items[i].key, data |-> items[i].data]]

\* A set that writes through: persist = true also writes the memory tier.
SetHandlerWriteThrough(s, index, key, body, ready, t, id) ==
    LET mem == [s EXCEPT !.cache = MemSet(s.cache, index, key, body.data, body.ttl, t).cache]
    IN IF body.persist
       THEN IF ~ready THEN {Out(s, 503, {})}
            ELSE LET op == Operations(<<[index |-> index, key |-> key, data |-> body.data]>>,
                                      body.ttl, t, id)[1]
                 IN {Out([mem EXCEPT !.db = Upsert(s.db, op)], 200, {<<index, key>>}),
                     Out(s, 500, {})}
       ELSE {Out(mem, 200, {})}
\* set
SetHandler(s, index, key, body, ready, t, id) ==
    IF body.persist
    THEN IF ~ready THEN {Out(s, 503, {})}
         ELSE LET op == Operations(<<[index |-> index, key |-> key, data |-> body.data]>>,
                                   body.ttl, t, id)[1]
              IN {Out([s EXCEPT !.db = Upsert(s.db, op)], 200, {<<index, key>>}),
                  Out(s, 500, {})}
    ELSE {Out([s EXCEPT !.cache = MemSet(s.cache, index, key, body.data, body.ttl, t).cache],
              200, {})}

\* The part batchSet (persist = true), globalBatchSet and bufferedBatchSet
\* share once the items are accepted; buffered tells the last from the
\* other two.
BatchWrite(s, items, body, ready, t, id, buffered) ==
    IF body.persist
    THEN IF ~ready THEN {Out(s, 503, {})}
         ELSE LET ops == Operations(items, body.ttl, t, id) IN
              IF buffered
              THEN LET r == BatcherAddMany(s.queue, s.flushed, ops)
                   IN {Out([s EXCEPT !.queue = r.queue, !.flushed = r.flushed],
                           200, ItemPairs(items))}
              ELSE UNION {
                     {Out([s EXCEPT !.db = d], IF F = {} THEN 200 ELSE 500,
                          IF F = {} THEN ItemPairs(items) ELSE {})
                        : d \in BatchBulkWrite(s.db, ops, F)}
                     : F \in SUBSET (1..Len(ops))}
    ELSE {Out([s EXCEPT !.cache = MemBatchSet(s.cache, items, body.ttl, t).cache], 200, {})}

\* batchSet
BatchSetHandler(s, index, body, ready, t, id) ==
    IF body.persist
    THEN BatchWrite(s, WithIndex(body.items, index), body, ready, t, id, FALSE)
    ELSE {Out([s EXCEPT !.cache = MemBatchSetIndex(s.cache, index, body.items,
                                                   body.ttl, t).cache], 200, {})}

\* globalBatchSet and bufferedBatchSet
GlobalBatchHandler(s, allowed, body, ready, t, id, buffered) ==
    IF BatchForbidden(allowed, body.items) THEN {Out(s, 403, {})}
    ELSE BatchWrite(s, body.items, body, ready, t, id, buffered)

\* del
DelHandler(s, index, key, body, ready, t) ==
    IF body.useDb
    THEN IF ~ready THEN {Out(s, 503, {})}
         ELSE {Out([s EXCEPT !.db = {x \in s.db : ~(x.index = index /\ x.key = key)}], 200, {}),
               Out(s, 500, {})}
    ELSE {Out([s EXCEPT !.cache = MemDel(s.cache, index, key, t).cache], 200, {})}

\* A get that reads the memory tier when the store is not connected.
GetHandlerFallback(s, index, key, body, ready, t) ==
    IF body.useDb /\ ready
    THEN {Out(s, 200, {}), Out(s, 500, {})}
    ELSE {Out([s EXCEPT !.cache = MemGet(s.cache, index, key, t).cache], 200, {})}
\* get and batchGet: a durable read leaves the stores as they are.
GetHandler(s, index, key, body, ready, t) ==
    IF body.useDb
    THEN IF ~ready THEN {Out(s, 503, {})} ELSE {Out(s, 200, {}), Out(s, 500, {})}
    ELSE {Out([s EXCEPT !.cache = MemGet(s.cache, index, key, t).cache], 200, {})}
BatchGetHandler(s, index, body, ready, t) ==
    IF body.useDb
    THEN IF ~ready THEN {Out(s, 503, {})} ELSE {Out(s, 200, {}), Out(s, 500, {})}
    ELSE {Out([s EXCEPT !.cache = MemBatchGet(s.cache, index, body.keys, t).cache], 200, {})}

\* getAll, getSorted and getRank: a durable read leaves the stores as they
\* are and answers with the status of the query, or 500 when a query throws.
GetAllHandler(s, index, body, ready, t) ==
    IF body.useDb
    THEN IF ~ready THEN {Out(s, 503, {})}
         ELSE {Out(s, r.status, {}) : r \in DbGetAll(s.db, index, body.cursor, body.pageSize)}
              \cup {Out(s, 500, {})}
    ELSE LET r == MemGetAll(s.cache, index, body.cursor, body.pageSize, t)
         IN {Out([s EXCEPT !.cache = r.cache], r.res.status, {})}
GetSortedHandler(s, index, body, ready, t) ==
    IF body.useDb
    THEN IF ~ready THEN {Out(s, 503, {})}
         ELSE {Out(s, r.status, {}) :
                  r \in DbGetSorted(s.db, index, body.dir, body.valCursor, body.def,
                                    body.pageSize)}
              \cup {Out(s, 500, {})}
    ELSE LET r == MemGetSorted(s.cache, index, body.dir, body.valCursor, body.def,
                               body.pageSize, t)
         IN {Out([s EXCEPT !.cache = r.cache], r.res.status, {})}
GetRankHandler(s, index, key, body, ready, t) ==
    IF body.useDb
    THEN IF ~ready THEN {Out(s, 503, {})}
         ELSE {Out(s, DbGetRank(s.db, index, key, body.dir, body.def).status, {}),
               Out(s, 500, {})}
    ELSE LET r == MemGetRank(s.cache, index, key, body.dir, body.def, t)
         IN {Out([s EXCEPT !.cache = r.cache], r.res.status, {})}

Handle(route, body, allowed, s, ready, t, id) ==
    CASE route.h = "set" -> SetHandler(s, route.index, route.id, body, ready, t, id)
      [] route.h = "batchSet" -> BatchSetHandler(s, route.index, body, ready, t, id)
      [] route.h = "globalBatchSet" -> GlobalBatchHandler(s, allowed, body, ready, t, id, FALSE)
      [] route.h = "bufferedBatchSet" -> GlobalBatchHandler(s, allowed, body, ready, t, id, TRUE)
      [] route.h = "del" -> DelHandler(s, route.index, route.id, body, ready, t)
      [] route.h = "get" -> GetHandler(s, route.index, route.id, body, ready, t)
      [] route.h = "batchGet" -> BatchGetHandler(s, route.index, body, ready, t)
      [] route.h = "getAll" -> GetAllHandler(s, route.index, body, ready, t)
      [] route.h = "getSorted" -> GetSortedHandler(s, route.index, body, ready, t)
      [] route.h = "getRank" -> GetRankHandler(s, route.index, route.id, body, ready, t)
      [] route.h = "badParam" -> {Out(s, 400, {}), Out(s, 500, {})}
      [] route.h = "options" -> {Out(s, 200, {})}
      [] OTHER -> {Out(s, 404, {})}

\* The response and what the request leaves: the stores, the authCache, and
\* in res the handler that answered, its status, the token's
\* res.locals.allowedIndexes, the tier the request chose (persist or useDb),
\* the namespaces it addresses, and whether the handler had awaited the
\* store before it answered.
Answer(o, ac, route, allowed, body, waited) ==
    [cache |-> o.cache, db |-> o.db, queue |-> o.queue, flushed |-> o.flushed,
     authCache |-> ac,
     res |-> [op |-> route.h, status |-> o.status, allowed |-> allowed,
              durable |-> IF route.h \in {"set", "batchSet", "globalBatchSet",
                                          "bufferedBatchSet"}
                          THEN body.persist ELSE body.useDb,
              indexes |-> IF route.h \in {"globalBatchSet", "bufferedBatchSet"}
                          THEN {body.items[i].index : i \in 1..Len(body.items)}
                          ELSE {route.index} \ {""},
              waited |-> waited]]

\* The handler of the route awaits a call to the store before it answers:
\* the durable tier was chosen, isDbReady() holds and, for the global batch,
\* the permission loop has passed. bufferedBatchSet hands its operations to
\* the batcher and awaits nothing.
AwaitsStore(route, body, allowed, ready) ==
    /\ ready
    /\ \/ route.h \in {"set", "batchSet"} /\ body.persist
       \/ route.h = "globalBatchSet" /\ body.persist
                                     /\ ~BatchForbidden(allowed, body.items)
       \/ route.h \in {"del", "get", "batchGet", "getAll", "getSorted", "getRank"}
             /\ body.useDb

\* server.ts, once keyHandler has res.locals.allowedIndexes and the body of
\* the request, if it has one, is complete: keyHandler's permission check on
\* the path (made before the body is read, and the same after), then the
\* router and the handler up to its first await (pc "store") or to its
\* response (pc "answer").
Dispatch(method, segs, allowed, body, s, ready, t, id) ==
    IF ~PathAllowed(allowed, segs)
    THEN {[pc |-> "answer", route |-> NoRoute, out |-> Out(s, 403, {})]}
    ELSE LET route == Route(method, segs) IN
         IF AwaitsStore(route, body, allowed, ready)
         THEN {[pc |-> "store", route |-> route, out |-> Out(s, 0, {})]}
         ELSE {[pc |-> "answer", route |-> route, out |-> o]
                  : o \in Handle(route, body, allowed, s, ready, t, id)}

\* The store calls a durable read makes after its first one, given the
\* collection d its first one was answered from: getAll and getSorted look
\* for a document past the page when the page is not empty, getSorted with a
\* default value counts the documents first, getRank counts the better
\* documents once it has the target's value.
MoreAwaits(route, body, d) ==
    CASE route.h = "getAll" ->
            IF \E r \in DbGetAll(d, route.index, body.cursor, body.pageSize) :
                  r.data # <<>>
            THEN 1 ELSE 0
      [] route.h = "getSorted" ->
            (IF body.def # None THEN 1 ELSE 0)
            + (IF \E r \in DbGetSorted(d, route.index, body.dir, body.valCursor,
                                       body.def, body.pageSize) : r.data # <<>>
               THEN 1 ELSE 0)
      [] route.h = "getRank" ->
            IF DbGetRank(d, route.index, route.id, body.dir, body.def).status = 200
            THEN 1 ELSE 0
      [] OTHER -> 0

\* ------------------------------------------------- the service: actions
\* Number of requests one behaviour of the service issues, and of items a
\* batch carries at most.
MaxReq == 2
MaxItems == 2
\* Number of requests of the service that await an answer at once.
MaxInFlight == 1

\* The clock of the service is read at 0 and up to MaxClock.
MaxClock == 500

\* Requests: no usable Authorization header, or Bearer with a
\* namespace-bound key, the env key, a key nobody issued, or the inactive
\* key. "sorted" is a namespace whose name is also a word of the routes.
Auths == {None, Some("tA"), Some("tW"), Some("tX"), Some("tI")}
\* The ttl of the writing requests of the service: never, or one second.
ReqTTLs == {0, 1}
ReqIndexes == {"a", "b", "sorted"}
ReqKeys == {"k1"}
ReqItems(idxs) ==
    LET item == [index : idxs, key : ReqKeys, data : {Obj(Some(10))}]
    IN {<<i>> : i \in item} \cup {<<i, j>> : i \in item, j \in item}
\* A request body and query with the schema defaults, but for ttl (default
\* 120), which the writing requests choose.
Body0 ==
    [ttl |-> 1, data |-> Obj(Some(10)), persist |-> FALSE, items |-> <<>>,
     keys |-> <<>>, useDb |-> FALSE, cursor |-> None, pageSize |-> 5000,
     dir |-> "desc", def |-> None, valCursor |-> None]
\* The bodies and queries the requests of a method and path come with. They
\* are read after keyHandler (server.ts mounts the body parsers behind it):
\* a request is known by its request line and its token until then.
Bodies(method, segs) ==
    LET h == Route(method, segs).h IN
    CASE h = "set" ->
            {[Body0 EXCEPT !.ttl = ttl, !.persist = persist]
                : ttl \in ReqTTLs, persist \in BOOLEAN}
      [] h = "batchSet" ->
            {[Body0 EXCEPT !.ttl = ttl, !.persist = persist, !.items = items]
                : ttl \in ReqTTLs, persist \in BOOLEAN,
                  items \in {<<>>} \cup ReqItems({Route(method, segs).index})}
      [] h \in {"globalBatchSet", "bufferedBatchSet"} ->
            {[Body0 EXCEPT !.ttl = ttl, !.persist = persist, !.items = items]
                : ttl \in ReqTTLs, persist \in BOOLEAN, items \in ReqItems({"a", "b"})}
      [] h = "batchGet" ->
            {[Body0 EXCEPT !.useDb = useDb, !.keys = <<key>>]
                : useDb \in BOOLEAN, key \in ReqKeys}
      [] h \in {"del", "get", "getAll", "getSorted", "getRank"} ->
            {[Body0 EXCEPT !.useDb = useDb] : useDb \in BOOLEAN}
      [] OTHER -> {Body0}

Stores == [cache |-> cache, db |-> db, queue |-> queue, flushed |-> flushed]
\* The ids of the operations of request number n.
FirstId(n) == (n - 1) * MaxItems + 1
\* A sequence without its i-th element.
Remove(q, i) == SubSeq(q, 1, i - 1) \o SubSeq(q, i + 1, Len(q))
\* The request is answered: o is what it leaves and the response.
Serve(o) ==
    /\ cache' = o.cache
    /\ sw' = AdjustPos(sw, cache, o.cache)
    /\ sched' = sched
    /\ db' = o.db
    /\ queue' = o.queue
    /\ flushed' = o.flushed
    /\ authCache' = o.authCache
    /\ res' = o.res
    /\ UNCHANGED <<now, dbReady, hist, apiKeys>>
\* The request returns to the event loop with a call to the store pending;
\* ac is the authCache keyHandler has left.
Suspend(ac) ==
    /\ authCache' = ac
    /\ res' = [op |-> "none"]
    /\ UNCHANGED <<now, cache, sw, sched, db, dbReady, queue, hist, flushed, apiKeys>>
\* The router and the handler run for request number id, whose body is
\* complete: the request is answered, or its handler awaits the store. ac is
\* the authCache keyHandler has left, rest the other requests in flight.
Run(method, segs, allowed, ac, id, rest) ==
    \E body \in Bodies(method, segs) :
    \E x \in Dispatch(method, segs, allowed, body, Stores, dbReady, now, FirstId(id)) :
        IF x.pc = "store"
        THEN /\ Suspend(ac)
             /\ inflight' = Append(rest, [pc |-> "store", route |-> x.route,
                                          body |-> body, allowed |-> allowed,
                                          t0 |-> now, id |-> id,
                                          left |-> 0, status |-> 0])
        ELSE /\ Serve(Answer(x.out, ac, x.route, allowed, body, FALSE))
             /\ inflight' = rest
\* keyHandler has set allowedIndexes to allowed for request number id. It
\* answers 403 or calls next(), which enters express.json (server.ts:15),
\* mounted for every method. A request that announces no body, or whose
\* body has been received already, goes on to the router and its handler;
\* a request of any method that announces a body (Content-Length or
\* Transfer-Encoding) still on its way waits in the body parser, which
\* returns to the event loop until the body has been read.
Proceed(method, segs, allowed, ac, id, rest) ==
    \/ Run(method, segs, allowed, ac, id, rest)
    \/ /\ PathAllowed(allowed, segs)
       /\ Suspend(ac)
       /\ inflight' = Append(rest, [pc |-> "body", method |-> method, segs |-> segs,
                                    allowed |-> allowed, id |-> id])
\* A request arrives: keyHandler runs to its await, or to its end and then
\* the rest of the application runs to its first await (the body parser's,
\* or the handler's on the store) or to the response.
Enter(method, segs, auth) ==
    /\ nops < MaxReq
    /\ Len(inflight) < MaxInFlight
    /\ nops' = nops + 1
    /\ \E k \in {KeyHandlerEnter(authCache, auth, dbReady, now)} :
          CASE k.pc = "answer" ->
                  /\ Serve(Answer(Out(Stores, k.status, {}), k.authCache, NoRoute, {},
                                  Body0, FALSE))
                  /\ inflight' = inflight
            [] k.pc = "lookup" ->
                  /\ Suspend(k.authCache)
                  /\ inflight' = Append(inflight,
                        [pc |-> "lookup", method |-> method, segs |-> segs,
                         token |-> auth[1], id |-> nops + 1])
            [] OTHER ->
                  Proceed(method, segs, k.allowed, k.authCache, nops + 1, inflight)

\* POST /:index/:id
ReqSet ==
    \E auth \in Auths, index \in ReqIndexes, key \in ReqKeys :
        Enter("POST", <<index, key>>, auth)
\* POST /:index/batch/set
ReqBatchSet ==
    \E auth \in Auths, index \in ReqIndexes :
        Enter("POST", <<index, "batch", "set">>, auth)
\* POST /batch/set
ReqGlobalBatchSet == \E auth \in Auths : Enter("POST", <<"batch", "set">>, auth)
\* POST /batch/buffered
ReqBufferedBatchSet == \E auth \in Auths : Enter("POST", <<"batch", "buffered">>, auth)
\* DELETE /:index/:id
ReqDel ==
    \E auth \in Auths, index \in ReqIndexes, key \in ReqKeys :
        Enter("DELETE", <<index, key>>, auth)
\* GET /:index/:id
ReqGet ==
    \E auth \in Auths, index \in ReqIndexes, key \in ReqKeys :
        Enter("GET", <<index, key>>, auth)
\* POST /:index/batch/get
ReqBatchGet ==
    \E auth \in Auths, index \in ReqIndexes :
        Enter("POST", <<index, "batch", "get">>, auth)
\* GET /:index
ReqGetAll == \E auth \in Auths, index \in ReqIndexes : Enter("GET", <<index>>, auth)
\* GET /:index/sorted
ReqGetSorted ==
    \E auth \in Auths, index \in ReqIndexes : Enter("GET", <<index, "sorted">>, auth)
\* GET /:index/rank/:id
ReqGetRank ==
    \E auth \in Auths, index \in ReqIndexes, key \in ReqKeys :
        Enter("GET", <<index, "rank", key>>, auth)
\* A request no route matches: DELETE /:index
ReqUnrouted == \E auth \in Auths, index \in ReqIndexes : Enter("DELETE", <<index>>, auth)
\* Requests that spell a word of the routes with capital letters:
\* GET /a/sOrTeD, GET /a/Rank/k1, POST /bAtch/SET.
CapitalPaths ==
    {[method |-> "GET", segs |-> <<"a", "sOrTeD">>],
     [method |-> "GET", segs |-> <<"a", "Rank", "k1">>],
     [method |-> "POST", segs |-> <<"bAtch", "SET">>]}
ReqCapitals ==
    \E auth \in Auths, r \in CapitalPaths : Enter(r.method, r.segs, auth)
\* Requests whose path holds an escape, an empty segment or a "/" at its
\* end: GET /%61/k1 (index a), GET /%C3%A9/k1 (index e with an acute
\* accent, code point 233), GET /%zz/k1 (URIError), GET //k1, POST /a/k1/.
EscapedPaths ==
    {[method |-> "GET", segs |-> <<"%61", "k1">>],
     [method |-> "GET", segs |-> <<"%C3%A9", "k1">>],
     [method |-> "GET", segs |-> <<"%zz", "k1">>],
     [method |-> "GET", segs |-> <<"", "k1">>],
     [method |-> "POST", segs |-> <<"a", "k1", "">>]}
ReqEscaped ==
    \E auth \in Auths, r \in EscapedPaths : Enter(r.method, r.segs, auth)
\* Requests of methods no route is registered for: HEAD /a/k1 (served by
\* get), OPTIONS /a/k1 (answered by the router).
OtherMethods == {"HEAD", "OPTIONS"}
ReqOtherMethods ==
    \E auth \in Auths, method \in OtherMethods : Enter(method, <<"a", "k1">>, auth)

\* The ApiKey lookup of a request in flight is answered: keyHandler resumes,
\* and when it calls next() the rest of the application runs to its first
\* await or to the response.
LookupAnswered ==
    /\ UNCHANGED nops
    /\ \E i \in 1..Len(inflight) : \E lookupFails \in BOOLEAN :
          /\ inflight[i].pc = "lookup"
          /\ \E r \in {inflight[i]} :
             \E k \in {KeyHandlerResume(authCache, r.token, apiKeys, now, lookupFails)} :
                IF k.pc = "answer"
                THEN /\ Serve(Answer(Out(Stores, k.status, {}), k.authCache, NoRoute,
                                     {}, Body0, FALSE))
                     /\ inflight' = Remove(inflight, i)
                ELSE Proceed(r.method, r.segs, k.allowed, k.authCache, r.id,
                             Remove(inflight, i))

\* The body of a request that waits in the body parser has been read: the
\* router and the handler run, with isDbReady() and Date.now() of this moment.
BodyArrived ==
    /\ UNCHANGED nops
    /\ \E i \in 1..Len(inflight) :
          /\ inflight[i].pc = "body"
          /\ \E r \in {inflight[i]} :
                Run(r.method, r.segs, r.allowed, authCache, r.id, Remove(inflight, i))

\* The store answers the call a handler awaits. Its first call is applied
\* to the collection as it is now, with the cursor and expireAt the handler
\* computed before it awaited (t0); a read that has more calls to make
\* awaits the next one, and its later calls can only throw or go through.
StoreAnswered ==
    /\ UNCHANGED nops
    /\ \E i \in 1..Len(inflight) :
          /\ inflight[i].pc = "store"
          /\ \E r \in {inflight[i]} :
             IF r.left = 0
             THEN \E o \in Handle(r.route, r.body, r.allowed, Stores, TRUE, r.t0,
                                  FirstId(r.id)) :
                  \E more \in {MoreAwaits(r.route, r.body, db)} :
                     IF o.status = 200 /\ more > 0
                     THEN /\ Suspend(authCache)
                          /\ inflight' = [inflight EXCEPT ![i].left = more,
                                                          ![i].status = o.status]
                     ELSE /\ Serve(Answer(o, authCache, r.route, r.allowed, r.body, TRUE))
                          /\ inflight' = Remove(inflight, i)
             ELSE \/ /\ Serve(Answer(Out(Stores, 500, {}), authCache, r.route,
                                     r.allowed, r.body, TRUE))
                     /\ inflight' = Remove(inflight, i)
                  \/ /\ r.left > 1
                     /\ Suspend(authCache)
                     /\ inflight' = [inflight EXCEPT ![i].left = r.left - 1]
                  \/ /\ r.left = 1
                     /\ Serve(Answer(Out(Stores, r.status, {}), authCache, r.route,
                                     r.allowed, r.body, TRUE))
                     /\ inflight' = Remove(inflight, i)

\* mongoose.connection.readyState changes: the connection is made or lost.
DbConnection ==
    /\ dbReady' = ~dbReady
    /\ res' = [op |-> "none"]
    /\ UNCHANGED <<now, cache, sw, sched, db, queue, authCache, hist, flushed, nops, inflight, apiKeys>>

\* The store's TTL monitor (index {expireAt: 1}, expireAfterSeconds: 0)
\* removes the documents whose expireAt has been reached.
TtlMonitor ==
    /\ \E x \in db : x.expireAt <= now
    /\ db' = {x \in db : x.expireAt > now}
    /\ res' = [op |-> "none"]
    /\ UNCHANGED <<now, cache, sw, sched, dbReady, queue, authCache, hist, flushed, nops,
                   inflight, apiKeys>>

\* Time passes between two steps of the service.
Clock ==
    /\ now < MaxClock
    /\ now' = now + Step
    /\ res' = [op |-> "none"]
    /\ UNCHANGED <<cache, sw, sched, db, dbReady, queue, authCache, hist, flushed, nops,
                   inflight, apiKeys>>

\* The interval callback of the batcher finds operations queued and starts
\* a flush (on an empty queue it returns at once).
SvcTimer == queue # <<>> /\ BTimer

Next ==
    \/ ReqSet \/ ReqBatchSet \/ ReqGlobalBatchSet \/ ReqBufferedBatchSet
    \/ ReqDel \/ ReqGet \/ ReqBatchGet \/ ReqGetAll \/ ReqGetSorted \/ ReqGetRank
    \/ ReqUnrouted \/ ReqCapitals \/ ReqEscaped \/ ReqOtherMethods
    \/ LookupAnswered \/ BodyArrived \/ StoreAnswered
    \/ DbConnection \/ TtlMonitor \/ Clock \/ SvcTimer \/ BFlushDone

\* The service: requests through keyHandler and the router, both tiers, the
\* batcher and the store behind it. A request is a chain of steps, one per
\* stretch between two awaits, and time passes between them.
Spec == Init /\ [][Next]_vars

\* ----------------------------------------------------- the service: claims
SingleNamespace ==
    {"set", "del", "get", "getAll", "getSorted", "getRank", "batchSet", "batchGet"}
GlobalBatch == {"globalBatchSet", "bufferedBatchSet"}

\* C1: a request by a token without the wildcard reaches the handler of a
\* single-namespace route (get, set, delete, list, sorted, rank, namespace
\* batch) only if the namespace it addresses is an exact member of the
\* token's allowed namespaces, whatever the namespace is called.
C1_ExactMember ==
    (res.op \in SingleNamespace /\ "*" \notin res.allowed)
        => res.indexes \subseteq res.allowed

\* A global batch with a forbidden item is answered 403 and writes nothing.
C2_DeniedStep ==
    (/\ res'.op \in GlobalBatch
     /\ "*" \notin res'.allowed
     /\ ~(res'.indexes \subseteq res'.allowed))
        => (res'.status = 403 /\ UNCHANGED <<cache, db, queue, flushed>>)
\* C2: a global batch write (/batch/set, /batch/buffered) by a token without
\* the wildcard that holds an item of a namespace the token is not allowed is
\* answered 403 and leaves the memory tier, the durable tier and the batcher
\* queue (and its flushes) as they were, the allowed items included.
C2_AllOrNothing == [][C2_DeniedStep]_vars
\* C2 witness: a batch mixing an allowed and a forbidden namespace was
\* rejected.
C2_Witness ==
    /\ res.op \in GlobalBatch
    /\ res.status = 403
    /\ "*" \notin res.allowed
    /\ res.indexes \cap res.allowed # {}
    /\ ~(res.indexes \subseteq res.allowed)

\* The documents stored, queued in the batcher or in a flush under way.
DurableEntries ==
    db \cup {Doc(queue[i]) : i \in 1..Len(queue)}
       \cup UNION {{Doc(flushed[i].ops[j]) : j \in 1..Len(flushed[i].ops)}
                      : i \in {k \in 1..Len(flushed) : flushed[k].st = "pending"}}
\* C9: no durable write, whatever its ttl, leaves an entry (a document, or an
\* operation waiting in the batcher) whose expireAt is at or before the
\* instant it was written: a write with ttl <= 0 never expires.
C9_NeverExpires == \A x \in DurableEntries : x.expireAt > x.cursor

\* --------------------------------------------- the two tiers: the actions
\* Requests of one authorized client on namespace "a", each choosing its
\* tier (persist / useDb), while the store is connected.
MaxTierWrites == 2
TierIndex == "a"
TierPayloads == {Obj(Some(10)), Obj(Some(20))}
TierTTLs == {0, 1}

\* Number of requests of the client that await the store at once.
MaxTierPending == 1
\* The wildcard key of the client.
TierAllowed == {"*"}

\* The request is answered with outcome o of its handler; r is the response.
TierServe(o, r) ==
    /\ cache' = o.cache
    /\ sw' = AdjustPos(sw, cache, o.cache)
    /\ sched' = sched
    /\ db' = o.db
    /\ queue' = o.queue
    /\ flushed' = o.flushed
    /\ res' = r
    /\ UNCHANGED <<now, dbReady, authCache, hist, apiKeys>>

\* What a get on the chosen tier answers now.
TierRead(durable, key) ==
    IF durable THEN DbGet(db, TierIndex, key).data
    ELSE MemGet(cache, TierIndex, key, now).res.data

\* The response record of a request on route route with body body answered
\* with outcome o. It keeps what the tier answered for the key before (prev).
TierRes(route, body, o) ==
    LET durable == IF route.h = "set" THEN body.persist ELSE body.useDb
        keyed == route.h \in {"set", "del", "get"}
    IN [op |-> IF keyed THEN route.h ELSE "list",
        status |-> o.status,
        durable |-> durable,
        key |-> IF keyed THEN route.id ELSE "",
        data |-> CASE route.h = "set" -> body.data
                   [] route.h = "get" -> IF o.status = 200
                                         THEN TierRead(durable, route.id)
                                         ELSE NullPayload
                   [] OTHER -> NullPayload,
        prev |-> IF keyed THEN TierRead(durable, route.id) ELSE NullPayload]

\* The response record of the rank requests: the request and its status.
RankRes(route, body, o) ==
    [op |-> IF route.h = "set" THEN "set" ELSE "rank", status |-> o.status]
\* The response record the specification of kind keeps in res.
ResOf(kind, route, body, o) ==
    IF kind = "rank" THEN RankRes(route, body, o) ELSE TierRes(route, body, o)

\* The client sends a request: the handler answers from the memory tier at
\* once, or it awaits the store.
TierRequest(route, body, n, kind) ==
    /\ Len(inflight) < MaxTierPending
    /\ IF AwaitsStore(route, body, TierAllowed, dbReady)
       THEN /\ inflight' = Append(inflight,
                   [pc |-> "store", route |-> route, body |-> body, t0 |-> now,
                    id |-> n, left |-> 0, status |-> 0])
            /\ res' = [op |-> "none"]
            /\ UNCHANGED <<now, cache, sw, sched, db, dbReady, queue, authCache, hist,
                           flushed, apiKeys>>
       ELSE /\ \E o \in Handle(route, body, TierAllowed, Stores, dbReady, now, n) :
                  TierServe(o, ResOf(kind, route, body, o))
            /\ inflight' = inflight

\* The store answers the call a handler awaits: the write or the read is
\* applied to the collection as it is now, with the cursor and expireAt of
\* the moment the handler was entered, and a read with more calls to make
\* awaits the next one.
TierAnswered(kind) ==
    /\ UNCHANGED nops
    /\ \E i \in 1..Len(inflight) :
       \E r \in {inflight[i]} :
          IF r.left = 0
          THEN \E o \in Handle(r.route, r.body, TierAllowed, Stores, TRUE, r.t0, r.id) :
               \E more \in {MoreAwaits(r.route, r.body, db)} :
                  IF o.status = 200 /\ more > 0
                  THEN /\ inflight' = [inflight EXCEPT ![i].left = more,
                                                       ![i].status = o.status]
                       /\ res' = [op |-> "none"]
                       /\ UNCHANGED <<now, cache, sw, sched, db, dbReady, queue,
                                      authCache, hist, flushed, apiKeys>>
                  ELSE /\ TierServe(o, ResOf(kind, r.route, r.body, o))
                       /\ inflight' = Remove(inflight, i)
          ELSE \/ /\ TierServe(Out(Stores, 500, {}),
                               ResOf(kind, r.route, r.body, Out(Stores, 500, {})))
                  /\ inflight' = Remove(inflight, i)
               \/ /\ r.left > 1
                  /\ inflight' = [inflight EXCEPT ![i].left = r.left - 1]
                  /\ res' = [op |-> "none"]
                  /\ UNCHANGED <<now, cache, sw, sched, db, dbReady, queue, authCache,
                                 hist, flushed, apiKeys>>
               \/ /\ r.left = 1
                  /\ TierServe(Out(Stores, r.status, {}),
                               ResOf(kind, r.route, r.body, Out(Stores, r.status, {})))
                  /\ inflight' = Remove(inflight, i)

\* POST /a/:id with persist true or false.
TSet ==
    /\ nops < MaxTierWrites
    /\ nops' = nops + 1
    /\ \E key \in Keys, data \in TierPayloads, ttl \in TierTTLs, persist \in BOOLEAN :
          TierRequest([h |-> "set", index |-> TierIndex, id |-> key],
                      [Body0 EXCEPT !.ttl = ttl, !.data = data, !.persist = persist],
                      nops + 1, "tier")

\* DELETE /a/:id with useDb true or false.
TDel ==
    /\ UNCHANGED nops
    /\ \E key \in Keys, useDb \in BOOLEAN :
          TierRequest([h |-> "del", index |-> TierIndex, id |-> key],
                      [Body0 EXCEPT !.useDb = useDb], 1, "tier")

\* GET /a/:id with useDb true or false.
TGet ==
    /\ UNCHANGED nops
    /\ \E key \in Keys, useDb \in BOOLEAN :
          TierRequest([h |-> "get", index |-> TierIndex, id |-> key],
                      [Body0 EXCEPT !.useDb = useDb], 1, "tier")

\* GET /a?useDb=true, GET /a/sorted?useDb=true, GET /a/rank/:id?useDb=true
\* and POST /a/batch/get with useDb true.
TierListings ==
    {[route |-> [h |-> "getAll", index |-> TierIndex, id |-> ""], keys |-> <<>>],
     [route |-> [h |-> "getSorted", index |-> TierIndex, id |-> ""], keys |-> <<>>],
     [route |-> [h |-> "batchGet", index |-> TierIndex, id |-> ""],
      keys |-> <<"k1", "k2">>]}
    \cup {[route |-> [h |-> "getRank", index |-> TierIndex, id |-> key], keys |-> <<>>]
             : key \in Keys}
TDbList ==
    /\ UNCHANGED nops
    /\ \E l \in TierListings :
          TierRequest(l.route, [Body0 EXCEPT !.useDb = TRUE, !.keys = l.keys], 1,
                      "tier")

\* The store answers the request of the client.
TAnswered == TierAnswered("tier")

\* GET /a with useDb unset: the memory listing, which drops what expired.
TMemList ==
    /\ Len(inflight) < MaxTierPending
    /\ LET r == MemGetAll(cache, TierIndex, None, 5000, now)
       IN /\ cache' = r.cache
          /\ sw' = AdjustPos(sw, cache, r.cache)
          /\ sched' = sched
          /\ res' = [op |-> "list", status |-> r.res.status, durable |-> FALSE,
                     key |-> "", data |-> NullPayload, prev |-> NullPayload]
    /\ UNCHANGED <<now, db, dbReady, queue, authCache, hist, flushed, nops, inflight, apiKeys>>

NextTiers ==
    TSet \/ TDel \/ TGet \/ TDbList \/ TAnswered \/ TMemList \/ Tick \/ TtlMonitor

\* Both tiers under the requests of one client, the clock and the store's
\* TTL monitor.
SpecTiers == InitBatcher /\ [][NextTiers]_vars

\* ---------------------------------------------- the two tiers: the claims
\* The documents written with a positive ttl whose expireAt has passed and
\* which the TTL monitor has not removed yet.
ExpiredDocs == {x \in db : x.expireAt > x.cursor /\ x.expireAt < now}

\* C11: no durable read returns a document whose expireAt has passed, the
\* TTL monitor having removed it or not: get answers null for it, batch get
\* and the listings leave it out and rank does not find it.
C11_NoExpiredDurableReads ==
    \A x \in ExpiredDocs :
        /\ DbGet(db, x.index, x.key).data = NullPayload
        /\ \A r \in DbBatchGet(db, x.index, <<x.key>>) : r.data = <<>>
        /\ \A r \in DbGetAll(db, x.index, None, 5000) : x.key \notin ItemKeys(r.data)
        /\ \A r \in DbGetSorted(db, x.index, "desc", None, None, 5000) :
              x.key \notin ItemKeys(r.data)
        /\ DbGetRank(db, x.index, x.key, "desc", None).status = 404

\* ------------------------------------------- the service: unavailability
\* A request that chose the durable tier reached its handler, and passed the
\* handler's own permission check, while the store was not connected: the
\* handler answers 503 and the step changes no store.
C12_UnavailableStep ==
    (/\ res'.op \in SingleNamespace \cup GlobalBatch
     /\ ~res'.waited
     /\ res'.durable
     /\ res'.status # 403
     /\ ~dbReady)
        => (res'.status = 503 /\ UNCHANGED <<cache, db, queue, flushed>>)
\* C12: every operation that selects the durable tier (persist = true
\* writes, batch and buffered writes, useDb reads, deletes, listings, rank)
\* while the store is not connected is answered 503 Service Unavailable and
\* leaves the memory tier, the namespace registry and the batcher queue as
\* they were: it never falls back to the memory tier.
C12_Unavailable == [][C12_UnavailableStep]_vars
\* C12 witness: a durable request was answered 503 while the memory tier
\* held entries a fallback could have served.
C12_Witness ==
    /\ res.op \in SingleNamespace \cup GlobalBatch
    /\ ~res.waited
    /\ res.durable
    /\ res.status = 503
    /\ ~dbReady
    /\ cache # <<>>


\* Each tier holds at most one entry per (namespace, key).
C13_SingleEntry ==
    /\ \A x, y \in db : SameKey(x, y) => x = y
    /\ \A i, j \in 1..Len(StoreOf(TierIndex)) :
          StoreOf(TierIndex)[i].key = StoreOf(TierIndex)[j].key => i = j
\* After a set on a tier, get on that tier returns the value just written
\* and the tier's listing holds the key once, with that value.
C13_WriteStep ==
    (res'.op = "set" /\ res'.status = 200) =>
        IF res'.durable
        THEN /\ DbGet(db', TierIndex, res'.key).data = res'.data
             /\ \A r \in DbGetAll(db', TierIndex, None, 5000) :
                   SelectSeq(r.data, LAMBDA it : it.key = res'.key)
                       = <<[key |-> res'.key, data |-> res'.data]>>
        ELSE /\ MemGet(cache', TierIndex, res'.key, now').res.data = res'.data
             /\ SelectSeq(MemGetAll(cache', TierIndex, None, 5000, now').res.data,
                          LAMBDA it : it.key = res'.key)
                    = <<[key |-> res'.key, data |-> res'.data]>>
\* C13: last write wins per tier: once (ns, key, v2) is written to a tier
\* that held (ns, key, v1), a read of (ns, key) on that tier returns v2, v1 is
\* neither retrievable nor listed, and the tier holds one entry for (ns, key).
C13_LastWriteWins == []C13_SingleEntry /\ [][C13_WriteStep]_vars
\* C13 witness: a set has just replaced a different value on its tier
\* (prev is what the tier answered for the key before the write).
C13_Witness ==
    /\ res.op = "set" /\ res.status = 200
    /\ res.prev # NullPayload /\ res.prev # res.data
    /\ TierRead(res.durable, res.key) = res.data


\* The entries the memory tier holds, as (key, value) pairs of namespace "a".
MemEntries(reg) ==
    IF MapHas(reg, TierIndex)
    THEN {MapGet(reg, TierIndex).value[i] : i \in 1..Len(MapGet(reg, TierIndex).value)}
    ELSE {}
\* A request directed at one tier leaves the other tier as it was.
C14_OtherTierStep ==
    (res'.op \in {"set", "del", "get", "list"}) =>
        IF res'.durable
        THEN cache' = cache
        ELSE db' = db /\ queue' = queue /\ flushed' = flushed
\* No step brings an entry into a tier other than a write to that tier.
C14_NoMigrationStep ==
    /\ ~(res'.op = "set" /\ ~res'.durable) => MemEntries(cache') \subseteq MemEntries(cache)
    /\ ~(res'.op = "set" /\ res'.durable) => db' \subseteq db
\* C14: a write or delete directed at one tier leaves the other tier's entry
\* for the same (namespace, key) unchanged, and no operation copies, merges
\* or migrates an entry from one tier to the other.
C14_TierIndependence == [][C14_OtherTierStep /\ C14_NoMigrationStep]_vars
\* C14 witness: both tiers hold an entry for the same key, with different
\* values, and the last request wrote or deleted on the durable tier.
C14_Witness ==
    /\ res.op \in {"set", "del"} /\ res.durable /\ res.status = 200
    /\ MemGet(cache, TierIndex, res.key, now).res.data # NullPayload
    /\ res.prev # NullPayload
    /\ MemGet(cache, TierIndex, res.key, now).res.data # res.prev


\* ------------------------------------------------------ concurrent writers
\* NWriters clients each send one POST /a/k1 (persist = false) with a value
\* of their own. A request is issued (keyHandler and the body parser await)
\* and later its handler runs, as one macrotask, in any order with the other
\* handlers, the clock and the sweeper.
NWriters == 2
WriterKey == "k1"
WriterValue(w) == Obj(Some(10 * w))

\* A client sends its request.
WIssue ==
    /\ Len(inflight) < NWriters
    /\ \E ttl \in TierTTLs :
          inflight' = Append(inflight,
              [data |-> WriterValue(Len(inflight) + 1), ttl |-> ttl,
               pc |-> "issued", at |-> 0])
    /\ res' = [op |-> "none"]
    /\ UNCHANGED <<now, cache, sw, sched, db, dbReady, queue, authCache, hist, flushed, nops,
                   apiKeys>>

\* The set handler of request w runs.
WSet ==
    \E w \in 1..Len(inflight) :
        /\ inflight[w].pc = "issued"
        /\ MemStep(MemSet(cache, TierIndex, WriterKey, inflight[w].data,
                          inflight[w].ttl, now), "set")
        /\ inflight' = [inflight EXCEPT ![w].pc = "done", ![w].at = now]
        /\ hist' = [hist EXCEPT ![<<TierIndex, WriterKey>>] =
                        Some([at |-> now, ttl |-> inflight[w].ttl,
                              data |-> inflight[w].data])]
        /\ UNCHANGED <<now, db, dbReady, queue, authCache, flushed, nops, apiKeys>>

NextWriters == WIssue \/ WSet \/ Get \/ Tick \/ SweepStart \/ SweepResume \/ PruneResume

SpecWriters == InitMem /\ [][NextWriters]_vars

\* Every request of the writers has been issued and has completed.
AllDone ==
    /\ Len(inflight) = NWriters
    /\ \A w \in 1..NWriters : inflight[w].pc = "done"
\* C15: once the N concurrent set requests for one (namespace, key) have all
\* completed, get returns the value of exactly one of them, whole (payload
\* and cursor of the same request), whatever the order in which the handlers,
\* the sweeper and the clock ran; get finds nothing only when the ttl of the
\* request that completed last has run out.
C15_OneOfN ==
    AllDone =>
        LET g == GetNow(TierIndex, WriterKey)
            last == hist[<<TierIndex, WriterKey>>][1]
        IN  IF g.value = None
            THEN last.ttl > 0 /\ last.at + last.ttl * 1000 < now
            ELSE \E w \in 1..NWriters :
                    g.value[1] = [payload |-> inflight[w].data, cursor |-> inflight[w].at]
\* C15 witness: all writers are done, the sweeper is at work in the store
\* and get returns the value of the first writer: it completed last.
C15_Witness ==
    /\ AllDone
    /\ sw.pc # "idle"
    /\ GetNow(TierIndex, WriterKey).value # None
    /\ GetNow(TierIndex, WriterKey).value[1].payload = WriterValue(1)


\* ------------------------------------------------ memory tier: the listings
\* One namespace holding up to three entries whose payloads are null, or an
\* object that carries the field "score" or lacks it (the body schema takes
\* any JSON value as data); clients write, time passes, and the three
\* listings of the memory tier answer, removing the expired entries they
\* come across.
MaxListWrites == 3
ListKeys == {"k1", "k2", "k3"}
ListPayloads == {NullPayload, Obj(None), Obj(Some(10)), Obj(Some(20)), Obj(Some(30))}
ListPageSizes == {1, 2, 3}
\* Every entry is written with a ttl of one second: it is live for the two
\* clock steps after its write and expired from the third on.
ListTTLs == {1}

\* A handler ran on the memory tier and sent its response. What a listing
\* leaves behind does not depend on its query parameters: it walks the whole
\* store and removes what expired; the claims compute the responses to every
\* query from the state.
ListStep(r, op) ==
    /\ cache' = r.cache
    /\ sw' = AdjustPos(sw, cache, r.cache)
    /\ sched' = sched
    /\ res' = [op |-> op]
    /\ UNCHANGED <<now, hist>>
    /\ UNCHANGED durVars

\* POST /a/:id, persist = false
LSet ==
    /\ nops < MaxListWrites
    /\ nops' = nops + 1
    /\ \E key \in ListKeys, data \in ListPayloads, ttl \in ListTTLs :
          ListStep(MemSet(cache, TierIndex, key, data, ttl, now), "set")

\* GET /a, useDb = false
LGetAll ==
    /\ UNCHANGED nops
    /\ \E pageSize \in ListPageSizes :
          ListStep(MemGetAll(cache, TierIndex, None, pageSize, now), "getAll")

\* GET /a/sorted?dataName=score, useDb = false
LGetSorted ==
    /\ UNCHANGED nops
    /\ \E dir \in Dirs, def \in Defaults :
          ListStep(MemGetSorted(cache, TierIndex, dir, None, def, 5000, now),
                   "getSorted")

\* GET /a/rank/:id?dataName=score, useDb = false
LGetRank ==
    /\ UNCHANGED nops
    /\ \E key \in ListKeys, def \in Defaults :
          ListStep(MemGetRank(cache, TierIndex, key, "desc", def, now), "getRank")

NextList == LSet \/ LGetAll \/ LGetSorted \/ LGetRank \/ Tick

SpecList == InitMem /\ [][NextList]_vars


\* ------------------------------------------- memory-tier listings: the claims
\* The store of the namespace, its live keys and what a key holds.
ListStore == StoreOf(TierIndex)
ListLive ==
    {k \in ListKeys : MapHas(ListStore, k) /\
        LET e == MapGet(ListStore, k).expiry IN e.inf \/ e.at >= now}
EntryOf(k) == MapGet(ListStore, k).value
\* The responses of the three listings to a request made now.
AllOut(cursor, pageSize) == MemGetAll(cache, TierIndex, cursor, pageSize, now).res
SortedOut(dir, cursor, def, pageSize) ==
    MemGetSorted(cache, TierIndex, dir, cursor, def, pageSize, now).res
RankOut(key, dir, def) == MemGetRank(cache, TierIndex, key, dir, def, now).res

\* C16: when the N >= 1 live entries of the namespace carry pairwise distinct
\* write cursors, the recency listing asked with pageSize = N and no cursor
\* returns all N entries with their payloads, in strictly descending cursor
\* order, nextCursor being the cursor of the last item and hasMore false.
C16_FullPage ==
    LET n == Cardinality(ListLive) IN
    (/\ n >= 1
     /\ \A j, k \in ListLive : j # k => EntryOf(j).cursor # EntryOf(k).cursor)
    => LET out == AllOut(None, n) IN
       /\ out.status = 200
       /\ Len(out.data) = n
       /\ ItemKeys(out.data) = ListLive
       /\ \A i \in 1..n : out.data[i].data = EntryOf(out.data[i].key).payload
       /\ \A i \in 1..(n - 1) :
             EntryOf(out.data[i].key).cursor > EntryOf(out.data[i + 1].key).cursor
       /\ out.nextCursor = Some(EntryOf(out.data[n].key).cursor)
       /\ out.hasMore = FALSE
\* C16 witness: the recency listing has just answered for three live entries
\* written at three different instants; the store holds them oldest first
\* and the listing returns them newest first.
C16_Witness ==
    /\ res.op = "getAll"
    /\ Cardinality(ListLive) = 3
    /\ \A j, k \in ListLive : j # k => EntryOf(j).cursor # EntryOf(k).cursor
    /\ AllOut(None, 3).data[1].key = ListStore[3].key
    /\ AllOut(None, 3).data[3].key = ListStore[1].key


\* The effective sort value of the entry of k: its field, else the default.
Eff(k, def) ==
    IF EntryOf(k).payload.score # None THEN EntryOf(k).payload.score[1] ELSE def[1]
\* The live entries that have an effective sort value under default def.
ListValued(def) ==
    {k \in ListLive : EntryOf(k).payload.score # None \/ def # None}
\* a comes strictly before b in direction dir.
Before(a, b, dir) == IF dir = "asc" THEN a < b ELSE a > b
Least(a, b) == IF a < b THEN a ELSE b

\* C17: a sorted listing asked with cursor c returns only entries whose
\* effective sort value lies strictly past c in the requested direction
\* (greater for asc, less for desc), and its page is the first pageSize of
\* them in that direction: as many as there are up to pageSize, none twice,
\* in order, and no entry left out comes before a returned one.
C17_CursorSemantics ==
    \A dir \in Dirs, c \in {15, 20}, def \in Defaults, pageSize \in ListPageSizes :
        \A page \in {SortedOut(dir, Some(c), def, pageSize).data},
           past \in {{k \in ListValued(def) : Before(c, Eff(k, def), dir)}} :
            /\ ItemKeys(page) \subseteq past
            /\ Len(page) = Least(pageSize, Cardinality(past))
            /\ Cardinality(ItemKeys(page)) = Len(page)
            /\ \A i, j \in 1..Len(page) :
                  i < j => ~Before(Eff(page[j].key, def), Eff(page[i].key, def), dir)
            /\ \A k \in past \ ItemKeys(page) : \A i \in 1..Len(page) :
                  ~Before(Eff(k, def), Eff(page[i].key, def), dir)


\* The live entries whose payload lacks the sort field.
Lacking == {k \in ListLive : EntryOf(k).payload.score = None}

\* C18: a sorted listing asked with a default value d includes every live
\* entry whose payload lacks the field, with d as its sort key: the entry is
\* counted in totalItems, the complete listing holds it at the place d has
\* among the values of the other entries in the requested direction,
\* nextCursor is d when it comes last, and with a cursor it is returned
\* exactly when d lies strictly past the cursor.
C18_DefaultPosition ==
    \A dir \in Dirs, def \in Defaults \ {None} :
        /\ \A out \in {SortedOut(dir, None, def, MaxListWrites)} :
            /\ Lacking \subseteq ItemKeys(out.data)
            /\ ItemKeys(out.data) = ListLive
            /\ out.totalItems = Cardinality(ListLive)
            /\ \A i, j \in 1..Len(out.data) :
                  Before(Eff(out.data[i].key, def), Eff(out.data[j].key, def), dir)
                  => i < j
            /\ out.data # <<>> =>
                  out.nextCursor = Some(Eff(out.data[Len(out.data)].key, def))
        /\ \A c \in {10, 20} :
              Lacking \cap ItemKeys(SortedOut(dir, Some(c), def, MaxListWrites).data)
                  = IF Before(c, def[1], dir) THEN Lacking ELSE {}


\* The documents that hold the live entries of the store: what the durable
\* tier holds when each of them was also written with persist = true.
Mirror ==
    {[index |-> TierIndex, key |-> k, payload |-> EntryOf(k).payload,
      cursor |-> EntryOf(k).cursor, expireAt |-> MapGet(ListStore, k).expiry.at]
        : k \in ListLive}

C20_Rank ==
    \A dir \in Dirs, def \in Defaults :
    \A out \in {[k \in ListValued(def) |-> RankOut(k, dir, def)]} :
        /\ \A key \in ListValued(def) :
            /\ out[key].status = 200
            /\ out[key].data.rank =
                  1 + Cardinality({k \in ListValued(def) :
                          Before(Eff(k, def), Eff(key, def), dir)})
        /\ \A j, k \in ListValued(def) :
              Eff(j, def) = Eff(k, def) => out[j].data.rank = out[k].data.rank
        /\ (dir = "desc" /\ {Eff(k, def) : k \in ListValued(def)} = {10, 20, 30})
           => \A k \in ListValued(def) :
                 out[k].data.rank = CASE Eff(k, def) = 30 -> 1
                                      [] Eff(k, def) = 20 -> 2
                                      [] OTHER -> 3


\* ------------------------------------------------------ rank: both tiers
\* One client writes up to MaxRankWrites entries of namespace a, to the
\* memory tier or the durable one, with any JSON payload the body schema
\* admits (data: z.any()): null, an object without the field, an object with
\* it. Time passes, the TTL monitor runs, and rank is asked on either tier.
MaxRankWrites == 2
RankPayloads == {NullPayload, Obj(None), Obj(Some(10)), Obj(Some(20))}

\* POST /a/:id with persist true or false.
RSet ==
    /\ nops < MaxRankWrites
    /\ nops' = nops + 1
    /\ \E key \in Keys, data \in RankPayloads, persist \in BOOLEAN :
          TierRequest([h |-> "set", index |-> TierIndex, id |-> key],
                      [Body0 EXCEPT !.data = data, !.persist = persist],
                      nops + 1, "rank")

\* GET /a/rank/:id?dataName=score with useDb true or false.
RRank ==
    /\ UNCHANGED nops
    /\ \E key \in Keys, dir \in Dirs, def \in Defaults, useDb \in BOOLEAN :
          TierRequest([h |-> "getRank", index |-> TierIndex, id |-> key],
                      [Body0 EXCEPT !.dir = dir, !.def = def, !.useDb = useDb],
                      1, "rank")

\* The store answers the request of the client.
RAnswered == TierAnswered("rank")

NextRank == RSet \/ RRank \/ RAnswered \/ Tick \/ TtlMonitor

SpecRank == InitBatcher /\ [][NextRank]_vars

\* ------------------------------------------------------- rank: the claims
\* The live entries of a memory store and the documents of the namespace.
LiveIn(c) ==
    {k \in Keys : MapHas(c, k) /\
        LET e == MapGet(c, k).expiry IN e.inf \/ e.at >= now}
RankDoc(k) == CHOOSE x \in DocsOf(db, TierIndex) : x.key = k
DocKeys == {x.key : x \in DocsOf(db, TierIndex)}
\* The status the claim gives the rank of an existing entry of payload pl.
RankStatus(pl, def) == IF pl.score = None /\ def = None THEN 400 ELSE 200

\* C21: on either tier, rank of a key without a live entry answers 404; rank
\* of an existing entry without a value for the field, asked without a
\* default, answers 400; rank of every other existing entry, whatever its
\* payload, answers 200 with a rank; and a 404 or 400 leaves every live
\* entry of the store as it was.
C21_RankOutcomes ==
    \A key \in Keys, dir \in Dirs, def \in Defaults :
        /\ \A r \in {MemGetRank(cache, TierIndex, key, dir, def, now)} :
            /\ r.res.status =
                  IF key \in LiveIn(StoreOf(TierIndex))
                  THEN RankStatus(MapGet(StoreOf(TierIndex), key).value.payload, def)
                  ELSE 404
            /\ r.res.status \in {400, 404} =>
                  \A k \in LiveIn(StoreOf(TierIndex)) :
                      /\ MapHas(MapGet(r.cache, TierIndex).value, k)
                      /\ MapGet(MapGet(r.cache, TierIndex).value, k)
                            = MapGet(StoreOf(TierIndex), k)
        /\ DbGetRank(db, TierIndex, key, dir, def).status =
              IF key \in DocKeys THEN RankStatus(RankDoc(key).payload, def) ELSE 404


\* ------------------------------------------- the listings: tier against tier
\* A listing response without the name of the tier that answered.
PageOf(out) ==
    [data |-> out.data, totalItems |-> out.totalItems,
     nextCursor |-> out.nextCursor, hasMore |-> out.hasMore]

\* C22: for the same entries (the live entries of the store and the
\* documents mirroring them, entries written at one instant sharing their
\* cursor), the same cursor and the same pageSize, the recency listing of the
\* durable tier returns what the memory tier returns: the same items in the
\* same order, the same totalItems, nextCursor and hasMore.
C22_RecencyEquivalence ==
    \A cursor \in Cursors, pageSize \in ListPageSizes :
        \A out \in DbGetAll(Mirror, TierIndex, cursor, pageSize) :
            PageOf(out) = PageOf(AllOut(cursor, pageSize))


\* The effective sort value of the last item of a page.
LastVal(out, def) == Eff(out.data[Len(out.data)].key, def)
\* Some live entry lies strictly past the last item of the page.
MorePast(out, dir, def) ==
    /\ out.data # <<>>
    /\ \E k \in ListValued(def) : Before(LastVal(out, def), Eff(k, def), dir)

\* C23: on both tiers the sorted listing answers hasMore = true exactly when
\* some entry lies strictly past the effective sort value of the page's last
\* item in the requested direction, that is exactly when the follow-up
\* request with cursor = nextCursor returns an item; entries sharing the
\* last item's value included.
C23_HasMore ==
    \A dir \in Dirs, cursor \in {None, Some(15)}, def \in Defaults,
       pageSize \in ListPageSizes :
        /\ \A out \in {SortedOut(dir, cursor, def, pageSize)} :
            /\ out.hasMore = MorePast(out, dir, def)
            /\ out.data # <<>> =>
                  out.hasMore =
                    (SortedOut(dir, out.nextCursor, def, pageSize).data # <<>>)
        /\ \A out \in DbGetSorted(Mirror, TierIndex, dir, cursor, def, pageSize) :
              out.hasMore = MorePast(out, dir, def)


\* ------------------------------------------ durable batch writes: the claims
\* Collection d holds what every operation the store did not reject wrote:
\* the document of that operation, or of another accepted operation of the
\* batch on the same (index, key).
AllAcceptedApplied(d, ops, F) ==
    \A i \in (1..Len(ops)) \ F :
        \E j \in (1..Len(ops)) \ F : SameKey(ops[i], ops[j]) /\ Doc(ops[j]) \in d

\* C24: on every durable batch write path (the bulkWrite of batchSet and
\* globalBatchSet, the bulkWrite of the batcher's flush), whatever operations
\* F of a batch the store rejects, every other operation of the batch is
\* applied.
C24_IndependentOps ==
    \A items \in ReqItems(ReqIndexes) : \A F \in SUBSET (1..Len(items)) :
        \A ops \in {Operations(items, Body0.ttl, now, nops + 1)} :
            /\ \A d \in FlushBulkWrite(db, ops, F) : AllAcceptedApplied(d, ops, F)
            /\ \A d \in BatchBulkWrite(db, ops, F) : AllAcceptedApplied(d, ops, F)


\* ------------------------------------------------- access control over time
\* Clients send GET /a/k1 with or without a token while the permission cache
\* ages half a CACHE_TTL at a time, the connection to the store comes and
\* goes, and an administrator changes the record of token tA.
MaxAuthTicks == 4
AuthStep == CACHE_TTL \div 2
AuthTokens == {None, Some("tA"), Some("tW"), Some("tX")}
AuthIndexes == {"a"}
\* The records an administrator may leave for token tA: none, the original,
\* another namespace, or inactive.
RecordsOfA ==
    { {},
      {[key |-> "tA", allowedIndexes |-> {"a"}, active |-> TRUE]},
      {[key |-> "tA", allowedIndexes |-> {"b"}, active |-> TRUE]},
      {[key |-> "tA", allowedIndexes |-> {"a"}, active |-> FALSE]} }

\* Half a cache lifetime passes.
AuthTick ==
    /\ now + AuthStep <= MaxAuthTicks * AuthStep
    /\ now' = now + AuthStep
    /\ res' = [op |-> "none"]
    /\ UNCHANGED <<cache, sw, sched, hist, nops>>
    /\ UNCHANGED durVars

\* The record of tA is created, changed, deactivated or deleted in the store.
KeyAdmin ==
    /\ \E S \in RecordsOfA :
          /\ apiKeys' = {d \in apiKeys : d.key # "tA"} \cup S
          /\ apiKeys' # apiKeys
    /\ res' = [op |-> "none"]
    /\ UNCHANGED <<now, cache, sw, sched, db, dbReady, queue, authCache, hist, flushed, nops,
                   inflight>>

\* Lookups of the ApiKey collection that may be pending at once.
MaxAuthPending == 2
\* What keyHandler and, behind it, the application answered to GET
\* /:index/k1 (useDb = false). res keeps the request's token, the stretch of
\* keyHandler that decided ("enter": before its await, "lookup": after it)
\* and whether the lookup threw.
AuthServe(k, auth, index, phase, lookupFails) ==
    /\ \E x \in IF k.pc = "answer"
                THEN {[out |-> Out(Stores, k.status, {})]}
                ELSE Dispatch("GET", <<index, "k1">>, k.allowed, Body0, Stores,
                              dbReady, now, 1) :
          /\ cache' = x.out.cache
          /\ sw' = AdjustPos(sw, cache, x.out.cache)
          /\ db' = x.out.db
          /\ queue' = x.out.queue
          /\ flushed' = x.out.flushed
          /\ res' = [op |-> "auth", auth |-> auth, index |-> index,
                     status |-> x.out.status, allowed |-> k.allowed,
                     phase |-> phase, lookupFails |-> lookupFails]
    /\ sched' = sched
    /\ authCache' = k.authCache
    /\ UNCHANGED <<now, dbReady, hist, nops, apiKeys>>
\* A request arrives and keyHandler runs to its await or to its end.
AReq ==
    \E auth \in AuthTokens, index \in AuthIndexes :
    \E k \in {KeyHandlerEnter(authCache, auth, dbReady, now)} :
        IF k.pc = "lookup"
        THEN /\ Len(inflight) < MaxAuthPending
             /\ inflight' = Append(inflight, [pc |-> "lookup", token |-> auth[1],
                                              index |-> index])
             /\ res' = [op |-> "none"]
             /\ UNCHANGED <<now, cache, sw, sched, db, dbReady, queue, authCache, hist,
                            flushed, nops, apiKeys>>
        ELSE /\ AuthServe(k, auth, index, "enter", FALSE)
             /\ inflight' = inflight
\* The ApiKey lookup of a request is answered, or throws: keyHandler resumes.
ALookup ==
    \E i \in 1..Len(inflight), lookupFails \in BOOLEAN :
    \E r \in {inflight[i]} :
    \E k \in {KeyHandlerResume(authCache, r.token, apiKeys, now, lookupFails)} :
        /\ AuthServe(k, Some(r.token), r.index, "lookup", lookupFails)
        /\ inflight' = Remove(inflight, i)

NextAuth == AReq \/ ALookup \/ AuthTick \/ KeyAdmin \/ DbConnection

SpecAuth == InitBatcher /\ [][NextAuth]_vars

\* -------------------------------------------- access control: the claims
\* The cache holds an unexpired entry for token tok.
CacheHit(tok) == MapHas(authCache, tok) /\ MapGet(authCache, tok).expiry > now
\* The active records of token tok in the store.
ActiveRecords(tok) == {d \in apiKeys : d.key = tok /\ d.active}

\* One stretch of keyHandler for a Bearer token, against the state before
\* it. Before its await it uses an unexpired entry and nothing else of the
\* cache; after its await it decides from the records as they are now.
C25_Step ==
    (res'.op = "auth" /\ res'.auth # None) =>
        LET tok == res'.auth[1] IN
        /\ res'.phase = "enter" =>
              /\ CacheHit(tok) => res'.allowed = MapGet(authCache, tok).allowedIndexes
              /\ ~CacheHit(tok) => ~dbReady
              /\ authCache' = authCache
        /\ (res'.phase = "lookup" /\ ~res'.lookupFails) =>
              IF ActiveRecords(tok) = {}
              THEN res'.status = 401 /\ authCache' = authCache
              ELSE \E d \in ActiveRecords(tok) :
                      /\ res'.status # 401
                      /\ res'.allowed = d.allowedIndexes
                      /\ authCache' = MapSet(authCache, tok,
                            [allowedIndexes |-> d.allowedIndexes,
                             expiry |-> now + CACHE_TTL])
        /\ authCache' # authCache =>
              res'.phase = "lookup" /\ ActiveRecords(tok) # {}
\* C25: a request with a token is decided from the cached entry only while
\* cacheExpiry > now. Without such an entry and with the store reachable
\* (connected, the lookup answering), a token without an active record is
\* answered 401 and caches nothing, and a token with one gets the
\* allowedIndexes of the record as it is now, cached for CACHE_TTL. The cache
\* changes in no other case.
C25_CacheFreshness == [][C25_Step]_vars
\* C25 witness: the cached entry of tA has expired, its record has been
\* deactivated or deleted, the store is connected, and the request of tA
\* that just came has been answered 401.
C25_Witness ==
    /\ res.op = "auth" /\ res.auth = Some("tA") /\ res.status = 401
    /\ res.phase = "lookup"
    /\ MapHas(authCache, "tA") /\ MapGet(authCache, "tA").expiry <= now
    /\ ActiveRecords("tA") = {}
    /\ dbReady /\ ~res.lookupFails


\* One keyHandler decision made without a cache hit and without the store.
C26_Step ==
    (/\ res'.op = "auth" /\ res'.auth # None /\ res'.phase = "enter"
     /\ ~CacheHit(res'.auth[1]) /\ ~dbReady) =>
        /\ authCache' = authCache
        /\ IF res'.auth[1] \in ConfigKeys
           THEN res'.allowed = {"*"} /\ res'.status = 200
           ELSE res'.status = 401 /\ res'.allowed = {}
\* C26: a request whose token has no unexpired cache entry, made while the
\* store is not connected, is decided by config.keys: a token of the list
\* gets wildcard access, whatever its record says, and goes on to the
\* router; any other token is answered 401; and the permission cache is left
\* as it was.
C26_Fallback == [][C26_Step]_vars
\* C26 witness: with the store not connected, the env key tW, whose cached
\* entry has expired and is still in the cache, has just been let through
\* with wildcard access, and tA, whose record is active, would be answered
\* 401.
C26_Witness ==
    /\ ~dbReady
    /\ res.op = "auth" /\ res.auth = Some("tW")
    /\ res.status = 200 /\ res.allowed = {"*"}
    /\ MapHas(authCache, "tW") /\ MapGet(authCache, "tW").expiry <= now
    /\ ActiveRecords("tA") # {} /\ ~CacheHit("tA")
    /\ KeyHandlerEnter(authCache, Some("tA"), dbReady, now).status = 401

\* ------------------------------------ the service and its administrator
\* Clients send POST /a/k1 with any of the tokens, through keyHandler, the
\* body parser and set, while an administrator changes the record of token
\* tA, the permission cache ages half a CACHE_TTL at a time and the
\* connection to the store comes and goes.
ReqKeyed == \E auth \in Auths : Enter("POST", <<"a", "k1">>, auth)

NextKeys ==
    \/ ReqKeyed \/ LookupAnswered \/ BodyArrived \/ StoreAnswered
    \/ KeyAdmin \/ AuthTick \/ DbConnection

SpecKeys == Init /\ [][NextKeys]_vars

\* ------------------------------------------------- claims: refused tokens
\* keyHandler has answered the request itself, with status 401 or, its
\* lookup having thrown, 500: no route was chosen.
KeyRefusal(r) == r.op = "none" /\ "status" \in DOMAIN r /\ r.status \in {401, 500}
\* A request keyHandler has refused leaves every store and the authCache as
\* they were.
C27_Step ==
    KeyRefusal(res') => UNCHANGED <<cache, db, queue, flushed, authCache>>
\* The first stretch of keyHandler on a token that has no unexpired cache
\* entry: it answers 401 when there is no usable header and when, the store
\* not being connected, the token is not a configured key; it awaits the
\* lookup when the store is connected; and it leaves the authCache alone.
C27_Enter ==
    \A auth \in Auths :
    \A k \in {KeyHandlerEnter(authCache, auth, dbReady, now)} :
        /\ k.authCache = authCache
        /\ auth = None => (k.pc = "answer" /\ k.status = 401)
        /\ (auth # None /\ ~CacheHit(auth[1])) =>
              IF dbReady THEN k.pc = "lookup"
              ELSE IF auth[1] \in ConfigKeys THEN k.pc = "next"
              ELSE k.pc = "answer" /\ k.status = 401
\* The second stretch of keyHandler, once the lookup has answered: 401 for a
\* token without an active record, 500 when the lookup threw, and the
\* authCache is left alone in both cases.
C27_Resume ==
    \A tok \in {"tA", "tW", "tX", "tI"}, lookupFails \in BOOLEAN :
    \A a \in {KeyHandlerResume(authCache, tok, apiKeys, now, lookupFails)} :
        /\ lookupFails => (a.pc = "answer" /\ a.status = 500 /\ a.authCache = authCache)
        /\ (~lookupFails /\ ActiveRecords(tok) = {}) =>
              (a.pc = "answer" /\ a.status = 401 /\ a.authCache = authCache)
\* C27, as amended: a request with a missing or malformed token, or with a
\* token that has no unexpired entry in the permission cache and no active
\* record in the store (the store not connected: that is not a configured
\* key), is answered 401 Unauthorized, and 500 when the lookup of its record
\* throws; a request so refused leaves the namespace registry and every
\* namespace store, the batcher queue and its flushes, the durable tier and
\* the permission cache as they were.
C27_RefusedMutatesNothing ==
    /\ [](C27_Enter /\ C27_Resume)
    /\ [][C27_Step]_vars
\* C27 witness: a request has just been answered 401 while the memory tier
\* holds what an authenticated request of tA wrote; the record of tA has
\* been deactivated or deleted since, and tA, whose cache entry is not
\* expired, would still be let through.
C27_Witness ==
    /\ KeyRefusal(res) /\ res.status = 401
    /\ cache # <<>>
    /\ CacheHit("tA") /\ ActiveRecords("tA") = {}
    /\ KeyHandlerEnter(authCache, Some("tA"), dbReady, now).pc = "next"

\* C27: a request with a missing or malformed token (no usable header), an
\* unknown token (no record) or an inactive token (no active record) is
\* answered 401 Unauthorized, whatever stretch of keyHandler decides, and
\* the permission cache is left as it was.
C27_NothingMutated ==
    \A auth \in Auths :
        (auth = None \/ ActiveRecords(auth[1]) = {}) =>
            \A k \in {KeyHandlerEnter(authCache, auth, dbReady, now)} :
                /\ k.authCache = authCache
                /\ \/ k.pc = "answer" /\ k.status = 401
                   \/ /\ k.pc = "lookup"
                      /\ \A lookupFails \in BOOLEAN :
                         \A a \in {KeyHandlerResume(authCache, auth[1], apiKeys, now,
                                                    lookupFails)} :
                            /\ a.pc = "answer" /\ a.status = 401
                            /\ a.authCache = authCache

\* ------------------------------------------- claims: overlapping executions
\* The flushes whose bulkWrite has been started and has not answered yet.
InProgress == {i \in 1..Len(flushed) : flushed[i].st = "pending"}
\* C28: at no time are two flushes of the batcher in progress: a flush,
\* started by the timer or by the size trigger, starts only when the
\* bulkWrite of the previous one has answered.
C28_NoOverlap == Cardinality(InProgress) <= 1

\* ------------------------------------------------ the sweeper's schedule
\* A statement of the try block throws when the sweep resumes after a yield:
\* the catch block logs the error, finally sets the next timer.
SweepAbort ==
    /\ sw.pc \in {"loop", "prune"}
    /\ sw' = SwIdle
    /\ sched' = SweepEnd(sched, TRUE)
    /\ res' = [op |-> "sweepError"]
    /\ UNCHANGED <<now, cache, hist, nops>>
    /\ UNCHANGED durVars

NextSweep == Tick \/ Set \/ SweepStart \/ SweepResume \/ PruneResume \/ SweepAbort

\* The memory tier under writes, with sweeps that may fail.
SpecSweep == InitMem /\ [][NextSweep]_vars
\* The same with the event loop running every callback that is due: the
\* timer of the sweeper and the continuations of its yields.
SpecSweepLive ==
    SpecSweep /\ WF_vars(SweepStart) /\ WF_vars(SweepResume) /\ WF_vars(PruneResume)

\* C29: at any instant at most one sweep is in progress, and no timer of the
\* sweeper is set while one is: the next sweep is scheduled only when the
\* current one ends, however long it takes and however often it yields.
C29_NoSelfOverlap ==
    /\ sched.running <= 1
    /\ sched.timers + sched.running = 1
    /\ (sched.running = 1) <=> (sw.pc # "idle")
\* C29 witness: a sweep has yielded inside the prune of a store, after its
\* first entry, and no timer is set.
C29_Witness ==
    /\ sw.pc = "prune" /\ sw.checked >= 1
    /\ sched.running = 1 /\ sched.timers = 0

\* C30: whenever no sweep is in progress the timer of the next one is set,
\* after a sweep that ended normally as after one that aborted on an error;
\* and sweeps start infinitely often.
C30_SweeperLive ==
    /\ [](sched.running = 0 => sched.timers = 1)
    /\ []<>(sched.lap = 0) /\ []<>(sched.lap = 1)
\* C30 witness: a sweep has aborted on an error while the registry holds
\* entries, and the next timer is set.
C30_Witness ==
    /\ res.op = "sweepError"
    /\ cache # <<>>
    /\ sched.running = 0 /\ sched.timers = 1

\* ------------------------------------------------ the registry: actions
\* Two namespaces of two keys each: clients write, delete and read, time
\* passes and the sweeper runs. A delete or an expiry can leave an empty
\* store behind, a read of an unknown namespace registers one.
MaxRegWrites == 2
RegTTLs == {0, 1}

\* POST /:index/:id, persist = false
NsSet ==
    \E index \in Indexes, key \in Keys, ttl \in RegTTLs :
        /\ nops < MaxRegWrites
        /\ nops' = nops + 1
        /\ MemStep(MemSet(cache, index, key, Obj(Some(10)), ttl, now), "set")
        /\ hist' = [hist EXCEPT ![<<index, key>>] =
                        Some([at |-> now, ttl |-> ttl, data |-> Obj(Some(10))])]
        /\ UNCHANGED now
        /\ UNCHANGED durVars
\* DELETE /:index/:id, useDb = false
NsDel ==
    \E index \in Indexes, key \in Keys :
        /\ MemStep(MemDel(cache, index, key, now), "del")
        /\ hist' = [hist EXCEPT ![<<index, key>>] = None]
        /\ UNCHANGED <<now, nops>>
        /\ UNCHANGED durVars
\* GET /:index/:id, useDb = false
NsGet ==
    \E index \in Indexes, key \in Keys :
        /\ MemStep(MemGet(cache, index, key, now), "get")
        /\ UNCHANGED <<now, hist, nops>>
        /\ UNCHANGED durVars

NextReg ==
    NsSet \/ NsDel \/ NsGet \/ Tick \/ SweepStart \/ SweepResume \/ PruneResume

SpecReg == InitMem /\ [][NextReg]_vars

\* ------------------------------------------------ the registry: the claims
\* A sweep in progress at position s, run to its end with nothing between
\* its steps; every step after the first runs at time t.
RECURSIVE SweepFinish(_, _, _)
SweepFinish(reg, s, t) ==
    IF s.pc = "idle" THEN reg
    ELSE LET r == IF s.pc = "loop" THEN SweepLoop(reg, s.indices, t)
                  ELSE PruneResumed(reg, s, t)
         IN SweepFinish(r.cache, r.sw, t)
\* A whole sweep of registry reg that starts at t1 and goes on at t2.
SweepWhole(reg, t1, t2) ==
    LET r == SweepLoop(reg, MapKeys(reg), t1) IN SweepFinish(r.cache, r.sw, t2)
\* The entries of a store that have not expired at t, in the store's order.
Unexpired(store, t) == SelectSeq(store, LAMBDA e : ~ExpiryLt(e.value.expiry, t))
Range(q) == {q[i] : i \in 1..Len(q)}

\* C31: a sweep with no request between its steps, begun now and continued
\* at any later time t2, removes every namespace of its snapshot whose store
\* is empty or has become empty by the prune, and no other. Afterwards a
\* visited namespace that is still registered has a non-empty store without
\* any entry that had expired when the sweep began, and every entry that is
\* live at t2 is still in its store, unchanged and in its place.
C31_SweepResult ==
    \A t2 \in {t \in Times : t >= now} :
    \A after \in {SweepWhole(cache, now, t2)} :
    \A idx \in Indexes :
        IF ~MapHas(cache, idx) THEN ~MapHas(after, idx)
        ELSE \A old \in {MapGet(cache, idx).value} :
             IF MapHas(after, idx)
             THEN \A new \in {MapGet(after, idx).value} :
                    /\ new # <<>>
                    /\ new = SelectSeq(old, LAMBDA e : e \in Range(new))
                    /\ Range(Unexpired(old, t2)) \subseteq Range(new)
                    /\ Range(new) \subseteq Range(Unexpired(old, now))
             ELSE Unexpired(old, t2) = <<>>
\* C31 witness: a sweep has run to its end: "a", whose only entry had
\* expired, is no longer registered, and "b" keeps its live entry.
C31_Witness ==
    /\ sw.pc = "idle" /\ sched.lap = 1
    /\ hist[<<"a", "k1">>] # None /\ hist[<<"a", "k1">>][1].ttl > 0
    /\ ~MapHas(cache, "a")
    /\ MapHas(cache, "b") /\ LiveKeys("b") # {}

\* The step is one of the sweeper: its timer fired or it resumed after a yield.
SweeperStep ==
    \/ sched' # sched
    \/ sw'.pc # sw.pc \/ sw'.indices # sw.indices \/ sw'.checked # sw.checked
\* What get_index_cache does in the current state: it returns the store
\* registered for idx and leaves the registry alone, or registers a new
\* empty store that never expires when there is none; the store it returns
\* is the registered one, and a second call returns it again.
OneStorePerNamespace ==
    /\ \A i, j \in 1..Len(cache) : i # j => cache[i].key # cache[j].key
    /\ \A idx \in Indexes : \A g \in {get_index_cache(cache, idx, now)} :
          /\ IF MapHas(cache, idx)
             THEN g.cache = cache /\ g.game = MapGet(cache, idx).value
             ELSE /\ g.game = <<>>
                  /\ g.cache = Append(cache, [key |-> idx,
                                 value |-> [value |-> <<>>, expiry |-> Infinity]])
          /\ MapHas(g.cache, idx) /\ MapGet(g.cache, idx).value = g.game
          /\ get_index_cache(g.cache, idx, now) = g
\* A step that unregisters a namespace is a step of the sweeper.
C32_Step ==
    \A idx \in Indexes :
        (MapHas(cache, idx) /\ ~MapHas(cache', idx)) => SweeperStep
\* C32: get_index_cache(n), called any number of times between any requests,
\* returns the one store registered for n and creates an empty store only
\* when none is registered; the registry never holds two stores for one
\* namespace; and only the sweeper unregisters a namespace.
C32_Idempotent == []OneStorePerNamespace /\ [][C32_Step]_vars
\* C32 witness: two requests wrote two keys of the new namespace "a" and
\* both entries are in its one store; "b" was registered, empty, by a
\* request that wrote nothing.
C32_Witness ==
    /\ hist[<<"a", "k1">>] # None /\ hist[<<"a", "k2">>] # None
    /\ MapHas(cache, "a") /\ Len(MapGet(cache, "a").value) = 2
    /\ MapHas(cache, "b") /\ MapGet(cache, "b").value = <<>>

\* ------------------------------------------------------ prune: actions
\* One namespace of up to three keys: clients write while the sweeper prunes
\* the store, yielding after every ChunkSize keys, and time passes.
MaxPruneWrites == 3
PruneTTLs == {0, 1}

\* POST /a/:id, persist = false
PSet ==
    \E key \in ListKeys, ttl \in PruneTTLs :
        /\ nops < MaxPruneWrites
        /\ nops' = nops + 1
        /\ MemStep(MemSet(cache, TierIndex, key, Obj(Some(10)), ttl, now), "set")
        /\ UNCHANGED <<now, hist>>
        /\ UNCHANGED durVars

NextPrune == PSet \/ Tick \/ SweepStart \/ SweepResume \/ PruneResume

SpecPrune == InitMem /\ [][NextPrune]_vars
\* The same with the event loop running the continuation of every yield.
SpecPruneLive == SpecPrune /\ WF_vars(PruneResume)

\* ------------------------------------------------------ prune: the claims
\* Chunk sizes of the prune calls the claims make.
ChunkSizes == {1, 2, 3}
\* One stretch of prune between two yields, from iterator position pos of
\* store c at time t: it visits the next keys of c, at most chunkSize of
\* them and exactly chunkSize unless the walk ends; it removes those of them
\* that have expired at t and nothing else; the iterator ends behind the
\* visited entries it kept.
StretchOk(c, pos, checked, chunkSize, t) ==
    \A r \in {PruneRun(c, pos, checked, chunkSize, t)} :
    \A v \in {r.checked - checked} :
        /\ v >= 0 /\ v <= chunkSize /\ pos + v <= Len(c)
        /\ r.done <=> (pos + v = Len(c) /\ (v = 0 \/ r.checked % chunkSize # 0))
        /\ ~r.done => (v >= 1 /\ r.checked % chunkSize = 0)
        /\ r.cache = SubSeq(c, 1, pos)
                        \o Unexpired(SubSeq(c, pos + 1, pos + v), t)
                        \o SubSeq(c, pos + v + 1, Len(c))
        /\ r.pos = pos + Len(Unexpired(SubSeq(c, pos + 1, pos + v), t))
\* prune run from its start to its end, resumed at once after every yield;
\* yields counts the yields it made.
RECURSIVE PruneWhole(_, _, _, _, _, _)
PruneWhole(c, pos, checked, chunkSize, t, yields) ==
    LET r == PruneRun(c, pos, checked, chunkSize, t) IN
    IF r.done THEN [cache |-> r.cache, checked |-> r.checked, yields |-> yields]
    ELSE PruneWhole(r.cache, r.pos, r.checked, chunkSize, t, yields + 1)

\* C33: prune(chunkSize) visits every key of the store once, removes exactly
\* the entries expired when they are visited and leaves the others as they
\* are and where they are, and yields after every chunkSize visited keys.
C33_Prune ==
    \A c \in {StoreOf(TierIndex)} : \A chunkSize \in ChunkSizes :
        /\ \A pos \in 0..Len(c) : \A t \in {u \in Times : u >= now} :
              StretchOk(c, pos, (pos \div chunkSize) * chunkSize, chunkSize, t)
        /\ sw.pc = "prune" => StretchOk(c, sw.pos, sw.checked, ChunkSize, now)
        /\ \A w \in {PruneWhole(c, 0, 0, chunkSize, now, 0)} :
              /\ w.cache = Unexpired(c, now)
              /\ w.checked = Len(c)
              /\ w.yields = Len(c) \div chunkSize
\* C33 witness: the sweeper's prune has yielded after its second key in a
\* store of three: it has kept one entry, removed an expired one, and has
\* one more key to visit.
C33_Witness ==
    /\ sw.pc = "prune" /\ sw.checked = 2 /\ sw.pos = 1
    /\ Len(StoreOf(TierIndex)) = 2
    /\ res = [op |-> "sweep", removed |-> 1]

\* ------------------------------------------- the registry: no lost write
\* Every write a handler has acknowledged, and that no later request has
\* overwritten or deleted, is returned by get for as long as its ttl runs.
NoLostWrite ==
    \A p \in HistKeys :
        hist[p] # None =>
            \A h \in {hist[p][1]} :
                (h.ttl <= 0 \/ now <= h.at + h.ttl * 1000) =>
                    GetNow(p[1], p[2]).value = Some(Written(h))
\* A namespace is unregistered only when its store holds no unexpired entry
\* at that instant.
C34_Step ==
    \A idx \in Indexes :
        (MapHas(cache, idx) /\ ~MapHas(cache', idx)) =>
            Unexpired(StoreOf(idx), now) = <<>>
\* C34: under every interleaving of memory-tier writes, deletes and reads
\* with the sweeper, writes that land while prune is yielding included, the
\* sweeper removes a namespace only if its store is empty when it removes
\* it, and every acknowledged write stays readable until it expires, is
\* deleted or is overwritten.
C34_NoLostWrite == []NoLostWrite /\ [][C34_Step]_vars
\* C34 witness: prune has removed the only, expired entry of "a" and has
\* yielded; a write has landed in the emptied store before the sweeper
\* tests its size, and get returns it.
C34_Witness ==
    /\ sw.pc = "prune" /\ sw.idx = "a" /\ sw.checked = 1 /\ sw.pos = 0
    /\ Len(StoreOf("a")) = 1
    /\ \E k \in Keys : hist[<<"a", k>>] # None /\ hist[<<"a", k>>][1].at = now
                       /\ GetNow("a", k).value # None

\* ------------------------------------------- batcher: order of the writes
\* Upserts whose payloads tell them apart: the n-th operation handed to the
\* batcher carries score 10 * n.
OAdd ==
    \E key \in Keys :
        /\ nops < MaxOps
        /\ LET item == [index |-> "a", key |-> key, data |-> Obj(Some(10 * (nops + 1)))]
               r == BatcherAdd(queue, flushed, Operations(<<item>>, 1, now, nops + 1)[1])
           IN queue' = r.queue /\ flushed' = r.flushed
        /\ nops' = nops + 1
        /\ res' = [op |-> "add"]
        /\ UNCHANGED <<db, dbReady>>
        /\ UNCHANGED batcherFrame

NextOrder == OAdd \/ BTimer \/ BFlushDone

SpecOrder == InitBatcher /\ [][NextOrder]_vars

\* Every operation enqueued so far has been flushed and every bulkWrite has
\* answered without an error.
AllFlushedOk ==
    /\ queue = <<>> /\ flushed # <<>>
    /\ \A i \in 1..Len(flushed) : flushed[i].st = "done"
FlushedOps == UNION {Range(flushed[i].ops) : i \in 1..Len(flushed)}
\* C35: once all flushes have completed successfully the collection holds,
\* for every (namespace, key), the payload, cursor and expireAt of the
\* upsert that was enqueued last, whether the upserts of the key went out in
\* one flush or in several.
C35_OrderPerKey ==
    AllFlushedOk =>
        \A op \in FlushedOps :
            (\A other \in FlushedOps : SameKey(op, other) => other.id <= op.id)
                => Doc(op) \in db

\* ------------------------------------------------ the listings: page by page
\* A client pages through the recency listing: it asks with cursor, then
\* with the nextCursor of each answer, until an answer says hasMore = false
\* (or `pages` more requests have been made). keys: the keys of the items
\* returned, in order; ended: the last answer said hasMore = false.
RECURSIVE RecencyWalk(_, _, _)
RecencyWalk(cursor, pageSize, pages) ==
    LET out == AllOut(cursor, pageSize)
        keys == [i \in 1..Len(out.data) |-> out.data[i].key]
    IN IF ~out.hasMore \/ pages = 0
       THEN [keys |-> keys, ended |-> ~out.hasMore]
       ELSE LET rest == RecencyWalk(out.nextCursor, pageSize, pages - 1)
            IN [keys |-> keys \o rest.keys, ended |-> rest.ended]

\* C36: with nothing written, deleted or expiring between the requests,
\* paging through the recency listing from no cursor until hasMore is false
\* returns every live entry of the namespace exactly once, for every
\* pageSize, entries written at one instant (as by one batch request)
\* included. Checked for entries whose cursor is not 0.
C36_Complete ==
    (\A k \in ListLive : EntryOf(k).cursor > 0) =>
        \A pageSize \in ListPageSizes :
        \A w \in {RecencyWalk(None, pageSize, MaxListWrites + 1)} :
            /\ w.ended
            /\ Range(w.keys) = ListLive
            /\ Len(w.keys) = Cardinality(ListLive)

\* A client pages through the sorted listing in the same way. keys: the keys
\* returned, in order; lasts: the effective values of the last items of the
\* pages; ended: the last answer said hasMore = false.
RECURSIVE SortedWalk(_, _, _, _, _)
SortedWalk(dir, cursor, def, pageSize, pages) ==
    LET out == SortedOut(dir, cursor, def, pageSize)
        keys == [i \in 1..Len(out.data) |-> out.data[i].key]
        lasts == IF out.nextCursor = None THEN {} ELSE {out.nextCursor[1]}
    IN IF ~out.hasMore \/ pages = 0
       THEN [keys |-> keys, lasts |-> lasts, ended |-> ~out.hasMore]
       ELSE LET rest == SortedWalk(dir, out.nextCursor, def, pageSize, pages - 1)
            IN [keys |-> keys \o rest.keys, lasts |-> lasts \cup rest.lasts,
                ended |-> rest.ended]

\* C37: with nothing written between the requests, paging through the
\* memory-tier sorted listing by nextCursor ends, returns no entry twice and
\* only entries with a sort value, never goes backwards in the effective
\* sort values, and leaves out an entry only if its effective value is that
\* of the last item of a returned page; when the effective values are
\* pairwise distinct it returns every such entry exactly once.
C37_NoDuplicates ==
    \A dir \in Dirs, def \in Defaults, pageSize \in ListPageSizes :
    \A w \in {SortedWalk(dir, None, def, pageSize, MaxListWrites + 1)} :
    \A got \in {Range(w.keys)} :
        /\ w.ended
        /\ Len(w.keys) = Cardinality(got)
        /\ got \subseteq ListValued(def)
        /\ \A i, j \in 1..Len(w.keys) :
              i < j => ~Before(Eff(w.keys[j], def), Eff(w.keys[i], def), dir)
        /\ \A k \in ListValued(def) \ got : Eff(k, def) \in w.lasts
        /\ (\A j, k \in ListValued(def) : j # k => Eff(j, def) # Eff(k, def))
              => got = ListValued(def)

\* The keys of the complete sorted listing, in its order.
FullListing(dir, def) ==
    LET out == SortedOut(dir, None, def, 5000)
    IN [keys |-> [i \in 1..Len(out.data) |-> out.data[i].key],
        status |-> out.status, totalItems |-> out.totalItems]

ReadResults(index) ==
    {MemGet(cache, index, key, now).cache : key \in Keys}
    \cup {MemBatchGet(cache, index, keys, now).cache : keys \in KeySeqs}
    \cup {MemGetAll(cache, index, cursor, pageSize, now).cache :
             cursor \in {None, Some(Step)}, pageSize \in {1, 5000}}
    \cup {MemGetSorted(cache, index, dir, cursor, def, pageSize, now).cache :
             dir \in Dirs, cursor \in {None, Some(15)}, def \in Defaults,
             pageSize \in {1, 5000}}
    \cup {MemGetRank(cache, index, key, dir, def, now).cache :
             key \in Keys, dir \in Dirs, def \in Defaults}
\* Store s2 is store s without some entries that had expired at t: the
\* entries live at t are the same, with the same value, cursor and expiry,
\* and what is left of s is in its order.
OnlyExpiredRemoved(s, s2, t) ==
    /\ Unexpired(s2, t) = Unexpired(s, t)
    /\ s2 = SelectSeq(s, LAMBDA e : e \in Range(s2))
\* Registry reg2 is registry reg after a read of namespace index at t.
ReadFrame(reg, reg2, index, t) ==
    /\ Len(reg2) = Len(reg) + (IF MapHas(reg, index) THEN 0 ELSE 1)
    /\ \A i \in 1..Len(reg) :
          IF reg[i].key = index
          THEN /\ reg2[i].key = index
               /\ reg2[i].value.expiry = reg[i].value.expiry
               /\ OnlyExpiredRemoved(reg[i].value.value, reg2[i].value.value, t)
          ELSE reg2[i] = reg[i]
    /\ ~MapHas(reg, index) =>
          reg2[Len(reg2)] = [key |-> index, value |-> [value |-> <<>>, expiry |-> Infinity]]

\* C39: get, batch get, the recency listing, the sorted listing and rank on
\* the memory tier leave every live entry of every namespace in place with
\* its value, write cursor and expiry; all they change is that entries of
\* the namespace read which had expired may be gone, and that a namespace
\* without a store has an empty one registered.
C39_ReadsEffectFree ==
    \A index \in Indexes :
    \A reg2 \in ReadResults(index) : ReadFrame(cache, reg2, index, now)
\* C39 witness: a read has just removed an expired entry from a store that
\* holds a live entry with a finite expiry.
C39_Witness ==
    /\ res \in {[op |-> o, removed |-> 1] : o \in {"get", "batchGet", "getAll", "getSorted", "getRank"}}
    /\ \E i \in 1..Len(cache) : \E e \in Range(cache[i].value.value) :
          ~e.value.expiry.inf /\ e.value.expiry.at >= now

\* ------------------------------------------------- prune: the walk ends
\* The keys of the pruned store the iterator has still to visit, and those
\* it has visited and kept.
ToVisit == Len(StoreOf(sw.idx)) - sw.pos
Behind == [i \in 1..sw.pos |-> StoreOf(sw.idx)[i].key]
\* While a prune is in progress its visits and the keys it has still to
\* visit are together no more than the entries ever inserted.
PruneBounded ==
    sw.pc = "prune" => sw.checked + ToVisit <= nops
\* A step that leaves the prune in progress is a stretch of the walk, which
\* visits at least one key and takes each visited key off the keys to visit,
\* or a request or clock step, which visits nothing and adds at most one key
\* to them, and only by inserting it; the keys behind the iterator stay
\* behind it.
C40_Step ==
    (sw.pc = "prune" /\ sw'.pc = "prune") =>
        /\ sw'.idx = sw.idx
        /\ SubSeq(Behind', 1, sw.pos) = Behind
        /\ \/ /\ sw'.checked > sw.checked
              /\ ToVisit' = ToVisit - (sw'.checked - sw.checked)
           \/ /\ sw'.checked = sw.checked /\ sw'.pos = sw.pos
              /\ ToVisit' \in {ToVisit, ToVisit + 1}
              /\ Len(StoreOf(sw.idx))' = Len(StoreOf(sw.idx)) + (ToVisit' - ToVisit)
\* C40: with the set calls of a behaviour bounded and the continuation of
\* every yield run, a prune in progress comes to its end; each of its
\* stretches visits keys not visited before, as many as it takes off the
\* keys to visit, and a set between two stretches adds at most the one key
\* it inserts to them.
C40_Terminates ==
    /\ []PruneBounded
    /\ [][C40_Step]_vars
    /\ (sw.pc = "prune") ~> (sw.pc # "prune")
\* C40 witness: a prune has visited and kept the first entry of its store,
\* whose expiry is finite, and has yielded with keys still to visit; the
\* last entry of the store was written after that expiry, so by a set during
\* the walk, and every set so far has inserted a key.
C40_Witness ==
    /\ sw.pc = "prune" /\ sw.pos >= 1 /\ sw.checked = sw.pos
    /\ nops = MaxPruneWrites
    /\ \E c \in {StoreOf(sw.idx)} :
          /\ Len(c) = nops
          /\ ~c[1].value.expiry.inf
          /\ c[Len(c)].value.value.cursor > c[1].value.expiry.at

====
